---- MODULE Spec2Model ----
(***************************************************************************)
(* Model of the cross-margin risk engine of EntropyAccount: the health     *)
(* component resolver, the weighted aggregator and the solvency queries,   *)
(* over account snapshots, a market registry (EntropyGroup) and a price /  *)
(* bank-index cache (EntropyCache).                                        *)
(*                                                                         *)
(* An I80F48 value is modelled by its scaled integer (the `data` field).   *)
(* The reference type has 48 fractional bits; the model keeps FRACTIONS    *)
(* fractional bits so that products stay inside TLC's integers while       *)
(* truncation of multiply / divide still happens.                          *)
(***************************************************************************)
EXTENDS Integers, Sequences, FiniteSets, TLC

(***************************************************************************)
(* Fixed-point numeric type (fixednum.ts is not part of the sources; its   *)
(* operations are modelled as BN arithmetic on the scaled integer, where   *)
(* BN division truncates toward zero).                                     *)
(***************************************************************************)
FRACTIONS == 2

MULTIPLIER == 2 ^ FRACTIONS

ZERO_I80F48 == 0

ONE_I80F48 == MULTIPLIER

HALF == MULTIPLIER \div 2

QUARTER == MULTIPLIER \div 4

abs(x) == IF x < 0 THEN -x ELSE x

neg(x) == -x

add(x, y) == x + y

sub(x, y) == x - y

\* BN.div: quotient truncated toward zero
TruncDiv(a, b) ==
    IF (a >= 0) = (b > 0) THEN abs(a) \div abs(b) ELSE -(abs(a) \div abs(b))

mul(x, y) == TruncDiv(x * y, MULTIPLIER)

div(x, y) == TruncDiv(x * MULTIPLIER, y)

isPos(x) == x > 0

isNeg(x) == x < 0

isZero(x) == x = 0

gt(x, y) == x > y

lte(x, y) == x <= y

gte(x, y) == x >= y

min(x, y) == IF x <= y THEN x ELSE y

max(x, y) == IF x >= y THEN x ELSE y

\* the largest whole number not above x, and the smallest not below it
floor(x) == x - (x % MULTIPLIER)

ceil(x) == IF x % MULTIPLIER = 0 THEN x ELSE floor(x) + MULTIPLIER

\* I80F48.fromI64 / fromU64 / fromNumber of an integer
fromI64(n) == n * MULTIPLIER

fromNumber(n) == n * MULTIPLIER

\* I80F48.fromNumber(Math.pow(10, d)): an exact power of ten for d >= 0, the
\* nearest scaled integer (half rounds up) for d < 0
fromNumberPow10(d) ==
    IF d >= 0 THEN (10 ^ d) * MULTIPLIER
    ELSE (2 * MULTIPLIER + 10 ^ (-d)) \div (2 * (10 ^ (-d)))

(***************************************************************************)
(* Indices, keys and absent records                                        *)
(***************************************************************************)
QUOTE_INDEX == 15

zeroKey == "zeroKey"

HealthTypes == {"Init", "Maint"}

\* an absent open-orders account (undefined) is the empty tuple,
\* a present one is a one-element tuple holding the record
undefined == <<>>

(***************************************************************************)
(* Registry, cache and account snapshots the model explores                *)
(***************************************************************************)
Markets == {0, 1}

numOraclesOf == Cardinality(Markets)

Tokens == Markets \cup {QUOTE_INDEX}

Weights(ma, ml, ia, il) ==
    [maintAssetWeight |-> ma, maintLiabWeight |-> ml,
     initAssetWeight |-> ia, initLiabWeight |-> il]

\* symmetric weights, Init stricter than Maint
WSym == Weights(3 * QUARTER, 5 * QUARTER, HALF, 3 * HALF)

\* liab weight 1 and a discounted asset weight
WFlatLiab == Weights(ONE_I80F48, ONE_I80F48, HALF, ONE_I80F48)

\* heavy liab weight
WHeavyLiab == Weights(3 * QUARTER, 2 * ONE_I80F48, HALF, 2 * ONE_I80F48)

\* degenerate registry: every weight is 1
WOnes == Weights(ONE_I80F48, ONE_I80F48, ONE_I80F48, ONE_I80F48)

\* misconfigured registry: Init looser than Maint
WLoose == Weights(HALF, 3 * HALF, 3 * QUARTER, 5 * QUARTER)

\* <<spot weights of market 0, perp weights of market 0,
\*   whether market 1 has a perp market>>
GroupChoices ==
    {<<WSym, WSym, TRUE>>, <<WFlatLiab, WHeavyLiab, TRUE>>,
     <<WHeavyLiab, WFlatLiab, TRUE>>, <<WOnes, WSym, FALSE>>,
     <<WLoose, WLoose, TRUE>>}

PerpMarketInfo(key, w, baseLot, quoteLot) ==
    [perpMarket |-> key, baseLotSize |-> baseLot, quoteLotSize |-> quoteLot,
     maintAssetWeight |-> w.maintAssetWeight,
     maintLiabWeight |-> w.maintLiabWeight,
     initAssetWeight |-> w.initAssetWeight,
     initLiabWeight |-> w.initLiabWeight]

MkGroup(ws, wp, perp1) ==
    [numOracles |-> numOraclesOf,
     tokens |-> [t \in Tokens |->
        [decimals |-> IF t = 0 THEN 1 ELSE 0]],
     spotMarkets |-> [i \in Markets |-> IF i = 0 THEN ws ELSE WSym],
     perpMarkets |->
        [i \in Markets |->
            IF i = 0 THEN PerpMarketInfo("perpMarket0", wp, 2, 1)
            ELSE PerpMarketInfo(IF perp1 THEN "perpMarketN" ELSE zeroKey,
                                WSym, 1, 3)]]

Groups == {MkGroup(g[1], g[2], g[3]) : g \in GroupChoices}

MkCache(price0) ==
    [rootBankCache |->
        [t \in Tokens |->
            IF t = QUOTE_INDEX
            THEN [depositIndex |-> ONE_I80F48, borrowIndex |-> 5 * QUARTER]
            ELSE IF t = 0
            THEN [depositIndex |-> ONE_I80F48, borrowIndex |-> ONE_I80F48]
            ELSE [depositIndex |-> 3 * HALF, borrowIndex |-> 2 * ONE_I80F48]],
     priceCache |->
        [i \in Markets |->
            [price |-> IF i = 0 THEN price0 ELSE 3 * HALF]],
     perpMarketCache |-> [i \in Markets |-> [longFunding |-> 0,
                                            shortFunding |-> 0]]]

Prices0 == {HALF, 2 * ONE_I80F48}

Caches == {MkCache(p) : p \in Prices0}

OpenOrdersRec(bf, bl, qf, ql) ==
    [baseFree |-> bf, baseLocked |-> bl, quoteFree |-> qf, quoteLocked |-> ql]

PerpAccountRec(bp, tb, tq, bq, aq, qp) ==
    [basePosition |-> bp, takerBase |-> tb, takerQuote |-> tq,
     bidsQuantity |-> bq, asksQuantity |-> aq, quotePosition |-> qp]

NoPerp == PerpAccountRec(0, 0, 0, 0, 0, 0)

\* <<deposits, borrows>> of the quote token, in shares
QuoteBalances == {<<12, 0>>, <<0, 6>>}

\* <<deposits, borrows>> of market 0, in shares
Balances0 == {<<0, 0>>, <<9, 0>>, <<0, 2>>, <<0, 8>>}

OpenOrders0 ==
    {undefined,
     <<OpenOrdersRec(0, 0, 0, 5)>>,
     <<OpenOrdersRec(0, 0, 0, 3)>>,
     <<OpenOrdersRec(1, 2, 1, 0)>>,
     <<OpenOrdersRec(0, 3, 2, 1)>>}

\* <<inMarginBasket, open-orders account>> of market 0: every record in the
\* basket, and outside the basket an absent record and a present one
BasketOrders0 ==
    {<<TRUE, oo>> : oo \in OpenOrders0}
        \cup {<<FALSE, undefined>>, <<FALSE, <<OpenOrdersRec(0, 3, 2, 1)>>>>}

PerpAccounts0 ==
    {PerpAccountRec(bp, t[1], t[2], bq, aq, t[3]) :
        bp \in {-2, 0, 1}, t \in {<<0, 0, 0>>, <<1, -2, 7>>},
        bq \in {0, 3}, aq \in {0, 3}}

\* <<deposits, borrows, perp account>> of market 1
Market1 ==
    {<<5, 0, NoPerp>>, <<0, 3, PerpAccountRec(-1, 0, 0, 0, 0, 2)>>}

MkAccount(q, b0, basket0, oo0, perp0, m1) ==
    [deposits |-> [t \in Tokens |->
        IF t = QUOTE_INDEX THEN q[1] ELSE IF t = 0 THEN b0[1] ELSE m1[1]],
     borrows |-> [t \in Tokens |->
        IF t = QUOTE_INDEX THEN q[2] ELSE IF t = 0 THEN b0[2] ELSE m1[2]],
     inMarginBasket |-> [i \in Markets |-> IF i = 0 THEN basket0 ELSE FALSE],
     spotOpenOrders |->
        [i \in Markets |->
            IF i = 0 /\ oo0 # undefined THEN "openOrders0" ELSE zeroKey],
     spotOpenOrdersAccounts |->
        [i \in Markets |-> IF i = 0 THEN oo0 ELSE undefined],
     perpAccounts |-> [i \in Markets |-> IF i = 0 THEN perp0 ELSE m1[3]],
     beingLiquidated |-> FALSE]

\* accounts whose market 0 exposure is spot balances and resting spot orders
SpotAccounts ==
    {MkAccount(q, b0, o[1], o[2], NoPerp, m1) :
        q \in QuoteBalances, b0 \in Balances0, o \in BasketOrders0,
        m1 \in Market1}

\* accounts whose market 0 exposure is a perp position and resting perp orders
PerpAccounts ==
    {MkAccount(q, <<0, 0>>, FALSE, undefined, perp0, m1) :
        q \in QuoteBalances, perp0 \in PerpAccounts0, m1 \in Market1}

\* the all-zero snapshot
ZeroAccount ==
    MkAccount(<<0, 0>>, <<0, 0>>, FALSE, undefined, NoPerp, <<0, 0, NoPerp>>)

\* the snapshots a run starts from; none is being liquidated yet
Accounts == SpotAccounts \cup PerpAccounts \cup {ZeroAccount}

(***************************************************************************)
(* Collaborators outside the sources (utils.ts, PerpAccount.ts)            *)
(***************************************************************************)
getWeights(entropyGroup, marketIndex, healthType) ==
    IF healthType = "Maint"
    THEN [spotAssetWeight |-> entropyGroup.spotMarkets[marketIndex].maintAssetWeight,
          spotLiabWeight |-> entropyGroup.spotMarkets[marketIndex].maintLiabWeight,
          perpAssetWeight |-> entropyGroup.perpMarkets[marketIndex].maintAssetWeight,
          perpLiabWeight |-> entropyGroup.perpMarkets[marketIndex].maintLiabWeight]
    ELSE IF healthType = "Init"
    THEN [spotAssetWeight |-> entropyGroup.spotMarkets[marketIndex].initAssetWeight,
          spotLiabWeight |-> entropyGroup.spotMarkets[marketIndex].initLiabWeight,
          perpAssetWeight |-> entropyGroup.perpMarkets[marketIndex].initAssetWeight,
          perpLiabWeight |-> entropyGroup.perpMarkets[marketIndex].initLiabWeight]
    ELSE [spotAssetWeight |-> ONE_I80F48, spotLiabWeight |-> ONE_I80F48,
          perpAssetWeight |-> ONE_I80F48, perpLiabWeight |-> ONE_I80F48]

splitOpenOrders(openOrders) ==
    [quoteFree |-> fromI64(openOrders.quoteFree),
     quoteLocked |-> fromI64(openOrders.quoteLocked),
     baseFree |-> fromI64(openOrders.baseFree),
     baseLocked |-> fromI64(openOrders.baseLocked)]

\* the funding-adjusted running quote balance of a perp position
getQuotePosition(perpAccount, perpMarketCache) == perpAccount.quotePosition

\* utils.ts: a native amount divided by 10^decimals
nativeI80F48ToUi(amount, decimals) == div(amount, fromNumberPow10(decimals))

\* EntropyGroup.getTokenDecimals
getTokenDecimals(entropyGroup, tokenIndex) ==
    entropyGroup.tokens[tokenIndex].decimals

\* I80F48.fromNumber(market.baseLotsToNumber(quantity)): the lots times the
\* lot size over 10^baseDecimals, as a fixed-point number
fromBaseLots(entropyGroup, marketIndex, quantity) ==
    TruncDiv(quantity * entropyGroup.perpMarkets[marketIndex].baseLotSize
                * MULTIPLIER,
             10 ^ entropyGroup.tokens[marketIndex].decimals)

(***************************************************************************)
(* EntropyAccount: resolver                                                *)
(***************************************************************************)
getNet(account, bankCache, tokenIndex) ==
    sub(mul(account.deposits[tokenIndex], bankCache.depositIndex),
        mul(account.borrows[tokenIndex], bankCache.borrowIndex))

\* a slip that resolves a tie of the two magnitudes to the bids case
spotComponentTieBids(account, entropyCache, i) ==
    LET bankCache == entropyCache.rootBankCache[i]
        price == entropyCache.priceCache[i].price
        baseNet == getNet(account, bankCache, i)
        openOrders == account.spotOpenOrdersAccounts[i]
    IN  IF account.inMarginBasket[i] /\ openOrders # undefined
        THEN LET oo == splitOpenOrders(openOrders[1])
                 bidsBaseNet ==
                    add(add(add(baseNet, div(oo.quoteLocked, price)),
                            oo.baseFree), oo.baseLocked)
                 asksBaseNet == add(baseNet, oo.baseFree)
             IN  IF abs(bidsBaseNet) >= abs(asksBaseNet)
                 THEN [base |-> bidsBaseNet, quoteAdd |-> oo.quoteFree]
                 ELSE [base |-> asksBaseNet,
                       quoteAdd |-> add(add(mul(oo.baseLocked, price),
                                            oo.quoteFree), oo.quoteLocked)]
        ELSE [base |-> baseNet, quoteAdd |-> ZERO_I80F48]

\* a slip that resolves any present open-orders record, in the margin
\* basket or not
spotComponentNoBasketFlag(account, entropyCache, i) ==
    LET bankCache == entropyCache.rootBankCache[i]
        price == entropyCache.priceCache[i].price
        baseNet == getNet(account, bankCache, i)
        openOrders == account.spotOpenOrdersAccounts[i]
    IN  IF openOrders # undefined
        THEN LET oo == splitOpenOrders(openOrders[1])
                 bidsBaseNet ==
                    add(add(add(baseNet, div(oo.quoteLocked, price)),
                            oo.baseFree), oo.baseLocked)
                 asksBaseNet == add(baseNet, oo.baseFree)
             IN  IF gt(abs(bidsBaseNet), abs(asksBaseNet))
                 THEN [base |-> bidsBaseNet, quoteAdd |-> oo.quoteFree]
                 ELSE [base |-> asksBaseNet,
                       quoteAdd |-> add(add(mul(oo.baseLocked, price),
                                            oo.quoteFree), oo.quoteLocked)]
        ELSE [base |-> baseNet, quoteAdd |-> ZERO_I80F48]

\* the spot branch of one iteration of getHealthComponents:
\* the value stored in spot[i] and the amount added to quote
spotComponent(account, entropyCache, i) ==
    LET bankCache == entropyCache.rootBankCache[i]
        price == entropyCache.priceCache[i].price
        baseNet == getNet(account, bankCache, i)
        openOrders == account.spotOpenOrdersAccounts[i]
    IN  IF account.inMarginBasket[i] /\ openOrders # undefined
        THEN LET oo == splitOpenOrders(openOrders[1])
                 bidsBaseNet ==
                    add(add(add(baseNet, div(oo.quoteLocked, price)),
                            oo.baseFree), oo.baseLocked)
                 asksBaseNet == add(baseNet, oo.baseFree)
             IN  IF gt(abs(bidsBaseNet), abs(asksBaseNet))
                 THEN [base |-> bidsBaseNet, quoteAdd |-> oo.quoteFree]
                 ELSE [base |-> asksBaseNet,
                       quoteAdd |-> add(add(mul(oo.baseLocked, price),
                                            oo.quoteFree), oo.quoteLocked)]
        ELSE [base |-> baseNet, quoteAdd |-> ZERO_I80F48]

\* a slip that adds the bids' quote value instead of subtracting it
perpComponentBidsAdded(account, entropyGroup, entropyCache, i) ==
    IF entropyGroup.perpMarkets[i].perpMarket # zeroKey
    THEN LET price == entropyCache.priceCache[i].price
             perpMarketCache == entropyCache.perpMarketCache[i]
             perpAccount == account.perpAccounts[i]
             baseLotSize == entropyGroup.perpMarkets[i].baseLotSize
             quoteLotSize == entropyGroup.perpMarkets[i].quoteLotSize
             takerQuote == fromI64(perpAccount.takerQuote * quoteLotSize)
             basePos == fromI64((perpAccount.basePosition + perpAccount.takerBase)
                                * baseLotSize)
             bidsQuantity == fromI64(perpAccount.bidsQuantity * baseLotSize)
             asksQuantity == fromI64(perpAccount.asksQuantity * baseLotSize)
             bidsBaseNet == add(basePos, bidsQuantity)
             asksBaseNet == sub(basePos, asksQuantity)
         IN  IF gt(abs(bidsBaseNet), abs(asksBaseNet))
             THEN [base |-> bidsBaseNet,
                   quoteAdd |->
                      add(add(getQuotePosition(perpAccount, perpMarketCache),
                              takerQuote),
                          mul(bidsQuantity, price))]
             ELSE [base |-> asksBaseNet,
                   quoteAdd |->
                      add(add(getQuotePosition(perpAccount, perpMarketCache),
                              takerQuote),
                          mul(asksQuantity, price))]
    ELSE [base |-> ZERO_I80F48, quoteAdd |-> ZERO_I80F48]

\* the perp branch of one iteration of getHealthComponents
perpComponent(account, entropyGroup, entropyCache, i) ==
    IF entropyGroup.perpMarkets[i].perpMarket # zeroKey
    THEN LET price == entropyCache.priceCache[i].price
             perpMarketCache == entropyCache.perpMarketCache[i]
             perpAccount == account.perpAccounts[i]
             baseLotSize == entropyGroup.perpMarkets[i].baseLotSize
             quoteLotSize == entropyGroup.perpMarkets[i].quoteLotSize
             takerQuote == fromI64(perpAccount.takerQuote * quoteLotSize)
             basePos == fromI64((perpAccount.basePosition + perpAccount.takerBase)
                                * baseLotSize)
             bidsQuantity == fromI64(perpAccount.bidsQuantity * baseLotSize)
             asksQuantity == fromI64(perpAccount.asksQuantity * baseLotSize)
             bidsBaseNet == add(basePos, bidsQuantity)
             asksBaseNet == sub(basePos, asksQuantity)
         IN  IF gt(abs(bidsBaseNet), abs(asksBaseNet))
             THEN [base |-> bidsBaseNet,
                   quoteAdd |->
                      sub(add(getQuotePosition(perpAccount, perpMarketCache),
                              takerQuote),
                          mul(bidsQuantity, price))]
             ELSE [base |-> asksBaseNet,
                   quoteAdd |->
                      add(add(getQuotePosition(perpAccount, perpMarketCache),
                              takerQuote),
                          mul(asksQuantity, price))]
    ELSE [base |-> ZERO_I80F48, quoteAdd |-> ZERO_I80F48]

\* the for loop of getHealthComponents from index i on, c being the
\* components accumulated so far
RECURSIVE healthComponentsLoop(_, _, _, _, _)
healthComponentsLoop(account, entropyGroup, entropyCache, i, c) ==
    IF i >= entropyGroup.numOracles THEN c
    ELSE LET s == spotComponent(account, entropyCache, i)
             p == perpComponent(account, entropyGroup, entropyCache, i)
         IN  healthComponentsLoop(account, entropyGroup, entropyCache, i + 1,
                [spot |-> [c.spot EXCEPT ![i] = s.base],
                 perps |-> [c.perps EXCEPT ![i] = p.base],
                 quote |-> add(add(c.quote, s.quoteAdd), p.quoteAdd)])

getHealthComponents(account, entropyGroup, entropyCache) ==
    healthComponentsLoop(account, entropyGroup, entropyCache, 0,
        [spot |-> [i \in 0 .. entropyGroup.numOracles - 1 |-> ZERO_I80F48],
         perps |-> [i \in 0 .. entropyGroup.numOracles - 1 |-> ZERO_I80F48],
         quote |-> getNet(account, entropyCache.rootBankCache[QUOTE_INDEX],
                          QUOTE_INDEX)])

(***************************************************************************)
(* EntropyAccount: weighted aggregator                                     *)
(***************************************************************************)
\* the for loop of getWeightedAssetsLiabsVals from index i on
RECURSIVE weightedAssetsLiabsLoop(_, _, _, _, _, _, _)
weightedAssetsLiabsLoop(entropyGroup, entropyCache, spot, perps, healthType, i, al) ==
    IF i >= entropyGroup.numOracles THEN al
    ELSE LET w == getWeights(entropyGroup, i, healthType)
             price == entropyCache.priceCache[i].price
             afterSpot ==
                IF isPos(spot[i])
                THEN [assets |-> add(mul(mul(spot[i], price), w.spotAssetWeight),
                                     al.assets),
                      liabs |-> al.liabs]
                ELSE [assets |-> al.assets,
                      liabs |-> add(mul(mul(neg(spot[i]), price),
                                        w.spotLiabWeight), al.liabs)]
             afterPerp ==
                IF isPos(perps[i])
                THEN [assets |-> add(mul(mul(perps[i], price), w.perpAssetWeight),
                                     afterSpot.assets),
                      liabs |-> afterSpot.liabs]
                ELSE [assets |-> afterSpot.assets,
                      liabs |-> add(mul(mul(neg(perps[i]), price),
                                        w.perpLiabWeight), afterSpot.liabs)]
         IN  weightedAssetsLiabsLoop(entropyGroup, entropyCache, spot, perps,
                                     healthType, i + 1, afterPerp)

\* a slip that adds a negative quote to liabs without negating it
getWeightedAssetsLiabsValsNoNeg(entropyGroup, entropyCache, spot, perps, quote, healthType) ==
    weightedAssetsLiabsLoop(entropyGroup, entropyCache, spot, perps,
        healthType, 0,
        IF isPos(quote)
        THEN [assets |-> add(ZERO_I80F48, quote), liabs |-> ZERO_I80F48]
        ELSE [assets |-> ZERO_I80F48, liabs |-> add(ZERO_I80F48, quote)])

getWeightedAssetsLiabsVals(entropyGroup, entropyCache, spot, perps, quote, healthType) ==
    weightedAssetsLiabsLoop(entropyGroup, entropyCache, spot, perps,
        healthType, 0,
        IF isPos(quote)
        THEN [assets |-> add(ZERO_I80F48, quote), liabs |-> ZERO_I80F48]
        ELSE [assets |-> ZERO_I80F48, liabs |-> add(ZERO_I80F48, neg(quote))])

\* a slip that applies the asset weight to every quantity
pickWeightAssetOnly(x, assetWeight, liabWeight) == assetWeight

\* a slip that swaps the two weights
pickWeightSwapped(x, assetWeight, liabWeight) ==
    IF isPos(x) THEN liabWeight ELSE assetWeight

\* the weight applied to a signed quantity
pickWeight(x, assetWeight, liabWeight) ==
    IF isPos(x) THEN assetWeight ELSE liabWeight

\* the for loop of getHealthFromComponents from index i on; health is the
\* accumulator object (the same object as the quote argument)
RECURSIVE healthFromComponentsLoop(_, _, _, _, _, _, _)
healthFromComponentsLoop(entropyGroup, entropyCache, spot, perps, healthType, i, health) ==
    IF i >= entropyGroup.numOracles THEN health
    ELSE LET w == getWeights(entropyGroup, i, healthType)
             price == entropyCache.priceCache[i].price
             spotHealth ==
                mul(mul(spot[i], price),
                    pickWeight(spot[i], w.spotAssetWeight, w.spotLiabWeight))
             perpHealth ==
                mul(mul(perps[i], price),
                    pickWeight(perps[i], w.perpAssetWeight, w.perpLiabWeight))
         IN  healthFromComponentsLoop(entropyGroup, entropyCache, spot, perps,
                healthType, i + 1, add(add(health, spotHealth), perpHealth))

\* `const health = quote` followed by health.iadd(..): the returned value
\* and the quote argument are one object, so the call returns the health
\* and leaves the caller's quote holding the same number
getHealthFromComponents(entropyGroup, entropyCache, spot, perps, quote, healthType) ==
    LET health == healthFromComponentsLoop(entropyGroup, entropyCache, spot,
                                           perps, healthType, 0, quote)
    IN  [ret |-> health, quote |-> health]

\* the for loop of getHealthsFromComponents from index i on.  spotHealth and
\* perpHealth are both `quote`, one object: health is that object, to which
\* both iadd calls add
RECURSIVE healthsFromComponentsLoop(_, _, _, _, _, _, _)
healthsFromComponentsLoop(entropyGroup, entropyCache, spot, perps, healthType, i, health) ==
    IF i >= entropyGroup.numOracles THEN health
    ELSE LET w == getWeights(entropyGroup, i, healthType)
             price == entropyCache.priceCache[i].price
             _spotHealth ==
                mul(mul(spot[i], price),
                    pickWeight(spot[i], w.spotAssetWeight, w.spotLiabWeight))
             _perpHealth ==
                mul(mul(perps[i], price),
                    pickWeight(perps[i], w.perpAssetWeight, w.perpLiabWeight))
             afterSpot == add(health, _spotHealth)
             afterPerp == add(afterSpot, _perpHealth)
         IN  healthsFromComponentsLoop(entropyGroup, entropyCache, spot, perps,
                healthType, i + 1, afterPerp)

\* `const spotHealth = quote; const perpHealth = quote`: the two returned
\* values and the quote argument are one object
getHealthsFromComponents(entropyGroup, entropyCache, spot, perps, quote, healthType) ==
    LET health == healthsFromComponentsLoop(entropyGroup, entropyCache, spot,
                                            perps, healthType, 0, quote)
    IN  [spot |-> health, perp |-> health, quote |-> health]

(***************************************************************************)
(* EntropyAccount: solvency queries                                        *)
(***************************************************************************)
getHealth(account, entropyGroup, entropyCache, healthType) ==
    LET c == getHealthComponents(account, entropyGroup, entropyCache)
    IN  getHealthFromComponents(entropyGroup, entropyCache, c.spot, c.perps,
                                c.quote, healthType).ret

\* a slip that divides whenever liabs >= 0
getHealthRatioGte(account, entropyGroup, entropyCache, healthType) ==
    LET c == getHealthComponents(account, entropyGroup, entropyCache)
        al == getWeightedAssetsLiabsVals(entropyGroup, entropyCache, c.spot,
                                         c.perps, c.quote, healthType)
    IN  IF al.liabs >= ZERO_I80F48
        THEN IF isZero(al.liabs)
             THEN [threw |-> TRUE, ret |-> ZERO_I80F48]
             ELSE [threw |-> FALSE,
                   ret |-> mul(sub(div(al.assets, al.liabs), ONE_I80F48),
                               fromNumber(100))]
        ELSE [threw |-> FALSE, ret |-> fromNumber(100)]

\* BN.div asserts a non-zero divisor: the call throws on a zero one
getHealthRatio(account, entropyGroup, entropyCache, healthType) ==
    LET c == getHealthComponents(account, entropyGroup, entropyCache)
        al == getWeightedAssetsLiabsVals(entropyGroup, entropyCache, c.spot,
                                         c.perps, c.quote, healthType)
    IN  IF gt(al.liabs, ZERO_I80F48)
        THEN IF isZero(al.liabs)
             THEN [threw |-> TRUE, ret |-> ZERO_I80F48]
             ELSE [threw |-> FALSE,
                   ret |-> mul(sub(div(al.assets, al.liabs), ONE_I80F48),
                               fromNumber(100))]
        ELSE [threw |-> FALSE, ret |-> fromNumber(100)]

\* a slip that takes the flag alone as the first disjunct
isLiquidatableFlagOnly(account, entropyGroup, entropyCache) ==
    \/ account.beingLiquidated
    \/ isNeg(getHealth(account, entropyGroup, entropyCache, "Maint"))

\* a slip that drops the hysteresis disjunct
isLiquidatableMaintOnly(account, entropyGroup, entropyCache) ==
    isNeg(getHealth(account, entropyGroup, entropyCache, "Maint"))

isLiquidatable(account, entropyGroup, entropyCache) ==
    \/ /\ account.beingLiquidated
       /\ isNeg(getHealth(account, entropyGroup, entropyCache, "Init"))
    \/ isNeg(getHealth(account, entropyGroup, entropyCache, "Maint"))

\* the for loop of getLiquidationPrice from index i on
RECURSIVE liquidationPriceLoop(_, _, _, _, _, _, _)
liquidationPriceLoop(entropyGroup, entropyCache, spot, perps, oracleIndex, i, acc) ==
    IF i >= entropyGroup.numOracles THEN acc
    ELSE LET w == getWeights(entropyGroup, i, "Maint")
         IN  IF i = oracleIndex
             THEN LET weightedSpot ==
                        mul(spot[i], pickWeight(spot[i], w.spotAssetWeight,
                                                w.spotLiabWeight))
                      weightedPerps ==
                        mul(perps[i], pickWeight(perps[i], w.perpAssetWeight,
                                                 w.perpLiabWeight))
                  IN  liquidationPriceLoop(entropyGroup, entropyCache, spot,
                        perps, oracleIndex, i + 1,
                        [acc EXCEPT !.weightedAsset =
                            neg(add(weightedSpot, weightedPerps))])
             ELSE LET price == entropyCache.priceCache[i].price
                      spotHealth ==
                        mul(mul(spot[i], price),
                            pickWeight(spot[i], w.spotAssetWeight,
                                       w.spotLiabWeight))
                      perpHealth ==
                        mul(mul(perps[i], price),
                            pickWeight(perps[i], w.perpAssetWeight,
                                       w.perpLiabWeight))
                  IN  liquidationPriceLoop(entropyGroup, entropyCache, spot,
                        perps, oracleIndex, i + 1,
                        [acc EXCEPT !.partialHealth =
                            add(add(acc.partialHealth, spotHealth),
                                perpHealth)])

\* partialHealth and weightedAsset as getLiquidationPrice has them after
\* its loop, computed from the resolver's components
liquidationPriceParts(account, entropyGroup, entropyCache, oracleIndex) ==
    LET c == getHealthComponents(account, entropyGroup, entropyCache)
    IN  liquidationPriceLoop(entropyGroup, entropyCache, c.spot, c.perps,
            oracleIndex, 0,
            [partialHealth |-> c.quote, weightedAsset |-> ZERO_I80F48])

\* a slip that returns the solved price without scaling it
getLiquidationPriceNoScale(account, entropyGroup, entropyCache, oracleIndex) ==
    LET parts == liquidationPriceParts(account, entropyGroup, entropyCache,
                                       oracleIndex)
    IN  IF isZero(parts.weightedAsset) THEN undefined
        ELSE LET liqPrice == div(parts.partialHealth, parts.weightedAsset)
             IN  IF isNeg(liqPrice) THEN undefined
                 ELSE <<liqPrice>>

\* a slip that returns a negative solved price
getLiquidationPriceNoNegCheck(account, entropyGroup, entropyCache, oracleIndex) ==
    LET parts == liquidationPriceParts(account, entropyGroup, entropyCache,
                                       oracleIndex)
    IN  IF isZero(parts.weightedAsset) THEN undefined
        ELSE LET liqPrice == div(parts.partialHealth, parts.weightedAsset)
             IN  <<mul(liqPrice,
                       fromNumberPow10(
                           entropyGroup.tokens[oracleIndex].decimals
                           - entropyGroup.tokens[QUOTE_INDEX].decimals))>>

\* the result is a one-element tuple holding the price, or undefined
getLiquidationPrice(account, entropyGroup, entropyCache, oracleIndex) ==
    LET parts == liquidationPriceParts(account, entropyGroup, entropyCache,
                                       oracleIndex)
    IN  IF isZero(parts.weightedAsset) THEN undefined
        ELSE LET liqPrice == div(parts.partialHealth, parts.weightedAsset)
             IN  IF isNeg(liqPrice) THEN undefined
                 ELSE <<mul(liqPrice,
                            fromNumberPow10(
                                entropyGroup.tokens[oracleIndex].decimals
                                - entropyGroup.tokens[QUOTE_INDEX].decimals))>>

(***************************************************************************)
(* EntropyAccount: capacity queries                                        *)
(***************************************************************************)
getNativeDeposit(account, rootBank, tokenIndex) ==
    mul(rootBank.depositIndex, account.deposits[tokenIndex])

getNativeBorrow(account, rootBank, tokenIndex) ==
    mul(rootBank.borrowIndex, account.borrows[tokenIndex])

getUiDeposit(account, rootBank, entropyGroup, tokenIndex) ==
    nativeI80F48ToUi(floor(getNativeDeposit(account, rootBank, tokenIndex)),
                     getTokenDecimals(entropyGroup, tokenIndex))

getUiBorrow(account, rootBank, entropyGroup, tokenIndex) ==
    nativeI80F48ToUi(ceil(getNativeBorrow(account, rootBank, tokenIndex)),
                     getTokenDecimals(entropyGroup, tokenIndex))

\* a slip that takes the spot weight whatever the market type
getMarketMarginAvailableSpotWeight(account, entropyGroup, entropyCache, marketIndex, marketType) ==
    LET health == getHealth(account, entropyGroup, entropyCache, "Init")
        w == getWeights(entropyGroup, marketIndex, "Init")
        weight == w.spotAssetWeight
    IN  IF lte(health, ZERO_I80F48) THEN ZERO_I80F48
        ELSE IF gte(weight, ONE_I80F48) THEN health
        ELSE div(health, sub(ONE_I80F48, weight))

getMarketMarginAvailable(account, entropyGroup, entropyCache, marketIndex, marketType) ==
    LET health == getHealth(account, entropyGroup, entropyCache, "Init")
        w == getWeights(entropyGroup, marketIndex, "Init")
        weight == IF marketType = "spot" THEN w.spotAssetWeight
                  ELSE w.perpAssetWeight
    IN  IF lte(health, ZERO_I80F48) THEN ZERO_I80F48
        ELSE IF gte(weight, ONE_I80F48) THEN health
        ELSE div(health, sub(ONE_I80F48, weight))

\* a slip that leaves out the final max with zero
getAvailableBalanceNoFloor(account, entropyGroup, entropyCache, tokenIndex) ==
    LET health == getHealth(account, entropyGroup, entropyCache, "Init")
        net == getNet(account, entropyCache.rootBankCache[tokenIndex],
                      tokenIndex)
    IN  IF tokenIndex = QUOTE_INDEX
        THEN min(health, net)
        ELSE LET w == getWeights(entropyGroup, tokenIndex, "Init")
             IN  min(net,
                     div(div(health, w.spotAssetWeight),
                         entropyCache.priceCache[tokenIndex].price))

\* a slip that limits the withdrawal by the balance only
getAvailableBalanceNetOnly(account, entropyGroup, entropyCache, tokenIndex) ==
    max(getNet(account, entropyCache.rootBankCache[tokenIndex], tokenIndex),
        ZERO_I80F48)

getAvailableBalance(account, entropyGroup, entropyCache, tokenIndex) ==
    LET health == getHealth(account, entropyGroup, entropyCache, "Init")
        net == getNet(account, entropyCache.rootBankCache[tokenIndex],
                      tokenIndex)
    IN  IF tokenIndex = QUOTE_INDEX
        THEN max(min(health, net), ZERO_I80F48)
        ELSE LET w == getWeights(entropyGroup, tokenIndex, "Init")
             IN  max(min(net,
                         div(div(health, w.spotAssetWeight),
                             entropyCache.priceCache[tokenIndex].price)),
                     ZERO_I80F48)

\* `market instanceof PerpMarket` is the market kind "perp"
MarketKinds == {"spot", "perp"}

Sides == {"buy", "sell"}

\* the amounts getMaxLeverageForMarket has before it solves for max; in the
\* perp branch one of deposits and borrows is never assigned
maxLeverageAmounts(account, entropyGroup, entropyCache, marketIndex, marketKind, price) ==
    IF marketKind = "perp"
    THEN LET basePos == account.perpAccounts[marketIndex].basePosition
         IN  IF basePos > 0
             THEN LET deposits == fromBaseLots(entropyGroup, marketIndex,
                                               basePos)
                  IN  [initLiabWeight |->
                          entropyGroup.perpMarkets[marketIndex].initLiabWeight,
                       initAssetWeight |->
                          entropyGroup.perpMarkets[marketIndex].initAssetWeight,
                       deposits |-> <<deposits>>, borrows |-> undefined,
                       uiDepositVal |-> mul(deposits, price),
                       uiBorrowVal |-> ZERO_I80F48]
             ELSE LET borrows == abs(fromBaseLots(entropyGroup, marketIndex,
                                                  basePos))
                  IN  [initLiabWeight |->
                          entropyGroup.perpMarkets[marketIndex].initLiabWeight,
                       initAssetWeight |->
                          entropyGroup.perpMarkets[marketIndex].initAssetWeight,
                       deposits |-> undefined, borrows |-> <<borrows>>,
                       uiDepositVal |-> ZERO_I80F48,
                       uiBorrowVal |-> mul(borrows, price)]
    ELSE LET deposits == getUiDeposit(account,
                            entropyCache.rootBankCache[marketIndex],
                            entropyGroup, marketIndex)
             borrows == getUiBorrow(account,
                            entropyCache.rootBankCache[marketIndex],
                            entropyGroup, marketIndex)
         IN  [initLiabWeight |->
                 entropyGroup.spotMarkets[marketIndex].initLiabWeight,
              initAssetWeight |->
                 entropyGroup.spotMarkets[marketIndex].initAssetWeight,
              deposits |-> <<deposits>>, borrows |-> <<borrows>>,
              uiDepositVal |-> mul(deposits, price),
              uiBorrowVal |-> mul(borrows, price)]

\* the division of I80F48 asserts a non-zero divisor: with a zero one the
\* call throws, and the result record has threw only
getMaxLeverageForMarket(account, entropyGroup, entropyCache, marketIndex, marketKind, side, price) ==
    LET initHealth == getHealth(account, entropyGroup, entropyCache, "Init")
        healthDecimals ==
            fromNumberPow10(entropyGroup.tokens[QUOTE_INDEX].decimals)
        uiInitHealth == div(initHealth, healthDecimals)
        a == maxLeverageAmounts(account, entropyGroup, entropyCache,
                                marketIndex, marketKind, price)
        uiHealthAtZero ==
            IF side = "buy"
            THEN add(uiInitHealth,
                     mul(a.uiBorrowVal, sub(a.initLiabWeight, ONE_I80F48)))
            ELSE add(uiInitHealth,
                     mul(a.uiDepositVal, sub(ONE_I80F48, a.initAssetWeight)))
        divisor ==
            IF side = "buy" THEN sub(ONE_I80F48, a.initAssetWeight)
            ELSE sub(a.initLiabWeight, ONE_I80F48)
    IN  IF isZero(divisor) THEN [threw |-> TRUE]
        ELSE [threw |-> FALSE,
              max |-> add(div(uiHealthAtZero, divisor),
                          IF side = "buy" THEN a.uiBorrowVal
                          ELSE a.uiDepositVal),
              uiBorrowVal |-> a.uiBorrowVal,
              uiDepositVal |-> a.uiDepositVal,
              deposits |-> a.deposits,
              borrows |-> a.borrows]

\* EntropyGroup.getPrice: 1 for the quote token, else the cached price in
\* UI units, scaled by 10^(token decimals - quote decimals)
getPrice(entropyGroup, tokenIndex, entropyCache) ==
    IF tokenIndex = QUOTE_INDEX THEN ONE_I80F48
    ELSE mul(entropyCache.priceCache[tokenIndex].price,
             fromNumberPow10(getTokenDecimals(entropyGroup, tokenIndex)
                             - getTokenDecimals(entropyGroup, QUOTE_INDEX)))

\* a slip that leaves the deposit of the token in the health
getMaxWithBorrowForTokenKeepDeposit(account, entropyGroup, entropyCache, tokenIndex) ==
    LET oldInitHealth ==
            floor(getHealth(account, entropyGroup, entropyCache, "Init"))
        liabWeight ==
            IF tokenIndex = QUOTE_INDEX THEN ONE_I80F48
            ELSE entropyGroup.spotMarkets[tokenIndex].initLiabWeight
        price == getPrice(entropyGroup, tokenIndex, entropyCache)
        healthDecimals ==
            fromNumberPow10(entropyGroup.tokens[QUOTE_INDEX].decimals)
    IN  div(div(oldInitHealth, healthDecimals), mul(price, liabWeight))

getMaxWithBorrowForToken(account, entropyGroup, entropyCache, tokenIndex) ==
    LET oldInitHealth ==
            floor(getHealth(account, entropyGroup, entropyCache, "Init"))
        tokenDeposits ==
            floor(getNativeDeposit(account,
                                   entropyCache.rootBankCache[tokenIndex],
                                   tokenIndex))
        liabWeight ==
            IF tokenIndex = QUOTE_INDEX THEN ONE_I80F48
            ELSE entropyGroup.spotMarkets[tokenIndex].initLiabWeight
        assetWeight ==
            IF tokenIndex = QUOTE_INDEX THEN ONE_I80F48
            ELSE entropyGroup.spotMarkets[tokenIndex].initAssetWeight
        nativePrice ==
            IF tokenIndex = QUOTE_INDEX THEN ONE_I80F48
            ELSE entropyCache.priceCache[tokenIndex].price
        newInitHealth ==
            floor(sub(oldInitHealth,
                      mul(mul(tokenDeposits, nativePrice), assetWeight)))
        price == getPrice(entropyGroup, tokenIndex, entropyCache)
        healthDecimals ==
            fromNumberPow10(entropyGroup.tokens[QUOTE_INDEX].decimals)
    IN  div(div(newInitHealth, healthDecimals), mul(price, liabWeight))

(***************************************************************************)
(* State: the snapshot handed to the engine and the last query's result    *)
(***************************************************************************)
\* account, entropyGroup, entropyCache: the snapshot; ret: the last query's
\* result; chain, reload: the on-chain account and an in-flight reload of
\* the EntropyAccount; env, send: the cluster as the client sees it and an
\* in-flight sendTransaction
VARIABLES account, entropyGroup, entropyCache, ret, chain, reload, env, send

vars == <<account, entropyGroup, entropyCache, ret, chain, reload, env, send>>

NoCall == [op |-> "none"]

\* no reload in flight.  method: reload or reloadFromSlot, whichever was
\* called last, and returned: that call has returned; keys: the keys passed
\* to getMultipleAccounts; lastSlot, slot, value: the argument and the
\* locals of reloadFromSlot, value being the on-chain state the last
\* response carried and -1 for null; accountEpoch: the on-chain state the
\* object's decoded fields were read from; allLoaded: every reload so far
\* was given a dexProgramId
ReloadIdle ==
    [pc |-> "idle", method |-> "reload", returned |-> FALSE,
     dexProgramId |-> FALSE, keys |-> {},
     lastSlot |-> 0, slot |-> -1, value |-> -1,
     accountEpoch |-> 0, allLoaded |-> TRUE]

\* the cluster and the clock as the client sees them.  status: what the
\* cluster knows of the transaction; listener: a signature subscription is
\* registered; elapsed: the timeout has passed since startTime; submits:
\* copies of the raw transaction submitted; callbacks: calls of
\* postSendTxCallback
EnvIdle ==
    [status |-> "none", listener |-> FALSE, elapsed |-> FALSE, submits |-> 0,
     callbacks |-> 0]

\* no sendTransaction or sendSignedTransaction in flight.  method: which of
\* the two was called; postSendTxCallback: the client was constructed with
\* one; done, resend, retryCount are the locals of
\* sendTransaction and its resend loop; confirmDone (`done`), promise, timer,
\* subscriptionId, loop, retrySleep and polls those of
\* awaitTransactionSignatureConfirmation; observed: the status the cluster
\* reported in the result the promise was resolved with; simulation: how
\* simulateTransaction ended; error: the message of the EntropyError thrown
SendIdle ==
    [pc |-> "idle", method |-> "sendTransaction",
     postSendTxCallback |-> FALSE, observed |-> "none",
     timeout |-> 0, confirmLevel |-> "processed",
     done |-> FALSE, resend |-> "none", retryCount |-> 0,
     confirmDone |-> FALSE, promise |-> "none", timer |-> "none",
     subscriptionId |-> FALSE, loop |-> "none", retrySleep |-> 0,
     polls |-> 0, simulation |-> "none", error |-> "none"]

Init ==
    /\ account \in Accounts
    /\ entropyGroup \in Groups
    /\ entropyCache \in Caches
    /\ ret = NoCall
    /\ chain = [epoch |-> 0, slot |-> 0]
    /\ reload = ReloadIdle
    /\ env = EnvIdle
    /\ send = SendIdle

GetHealthComponents ==
    /\ ret' = [op |-> "getHealthComponents",
               val |-> getHealthComponents(account, entropyGroup, entropyCache)]
    /\ UNCHANGED <<account, entropyGroup, entropyCache, chain, reload, env, send>>

\* a slip in which the accumulator the aggregator adds to in place is the
\* stored quote deposit itself rather than a fresh result of getNet
GetHealthIntoStoredBalance ==
    \E healthType \in HealthTypes :
        /\ ret' = [op |-> "getHealth", healthType |-> healthType,
                   val |-> getHealth(account, entropyGroup, entropyCache,
                                     healthType)]
        /\ account' = [account EXCEPT !.deposits[QUOTE_INDEX] =
                          getHealth(account, entropyGroup, entropyCache,
                                    healthType)]
        /\ UNCHANGED <<entropyGroup, entropyCache, chain, reload, env, send>>

GetHealth ==
    \E healthType \in HealthTypes :
        /\ ret' = [op |-> "getHealth", healthType |-> healthType,
                   val |-> getHealth(account, entropyGroup, entropyCache,
                                     healthType)]
        /\ UNCHANGED <<account, entropyGroup, entropyCache, chain, reload, env, send>>

GetHealthRatio ==
    \E healthType \in HealthTypes :
        /\ ret' = [op |-> "getHealthRatio", healthType |-> healthType,
                   val |-> getHealthRatio(account, entropyGroup, entropyCache,
                                          healthType)]
        /\ UNCHANGED <<account, entropyGroup, entropyCache, chain, reload, env, send>>

IsLiquidatable ==
    /\ ret' = [op |-> "isLiquidatable",
               val |-> isLiquidatable(account, entropyGroup, entropyCache)]
    /\ UNCHANGED <<account, entropyGroup, entropyCache, chain, reload, env, send>>

GetLiquidationPrice ==
    \E oracleIndex \in Markets :
        /\ ret' = [op |-> "getLiquidationPrice", oracleIndex |-> oracleIndex,
                   val |-> getLiquidationPrice(account, entropyGroup,
                                               entropyCache, oracleIndex)]
        /\ UNCHANGED <<account, entropyGroup, entropyCache, chain, reload, env, send>>

\* largest number of aggregations a caller runs over one resolved triple
MaxAggregations == 2

\* the component triple the caller holds: the resolver's return value, as
\* left by the aggregations run over it since
HeldComponents ==
    IF ret.op = "getHealthComponents" THEN ret.val ELSE ret.components

Aggregations == IF ret.op = "getHealthComponents" THEN 0 ELSE ret.calls

\* the caller resolves once and aggregates the triple it holds; the quote
\* of the triple is the object the aggregator accumulates into
GetHealthFromComponents ==
    \E healthType \in HealthTypes :
        /\ ret.op \in {"getHealthComponents", "getHealthFromComponents"}
        /\ Aggregations < MaxAggregations
        /\ LET c == HeldComponents
               r == getHealthFromComponents(entropyGroup, entropyCache,
                        c.spot, c.perps, c.quote, healthType)
           IN  ret' = [op |-> "getHealthFromComponents",
                       healthType |-> healthType,
                       val |-> r.ret,
                       components |-> [spot |-> c.spot, perps |-> c.perps,
                                       quote |-> r.quote],
                       calls |-> Aggregations + 1]
        /\ UNCHANGED <<account, entropyGroup, entropyCache, chain, reload, env, send>>

\* a caller resolves the components and aggregates them per kind
GetHealthsFromComponents ==
    \E healthType \in HealthTypes :
        /\ LET c == getHealthComponents(account, entropyGroup, entropyCache)
               r == getHealthsFromComponents(entropyGroup, entropyCache,
                        c.spot, c.perps, c.quote, healthType)
           IN  ret' = [op |-> "getHealthsFromComponents",
                       healthType |-> healthType,
                       val |-> [spot |-> r.spot, perp |-> r.perp],
                       components |-> [spot |-> c.spot, perps |-> c.perps,
                                       quote |-> r.quote]]
        /\ UNCHANGED <<account, entropyGroup, entropyCache, chain, reload, env, send>>

GetMarketMarginAvailable ==
    \E marketIndex \in Markets : \E marketType \in MarketKinds :
        /\ ret' = [op |-> "getMarketMarginAvailable",
                   marketIndex |-> marketIndex, marketType |-> marketType,
                   val |-> getMarketMarginAvailable(account, entropyGroup,
                              entropyCache, marketIndex, marketType)]
        /\ UNCHANGED <<account, entropyGroup, entropyCache, chain, reload, env, send>>

GetAvailableBalance ==
    \E tokenIndex \in Tokens :
        /\ ret' = [op |-> "getAvailableBalance", tokenIndex |-> tokenIndex,
                   val |-> getAvailableBalance(account, entropyGroup,
                                               entropyCache, tokenIndex)]
        /\ UNCHANGED <<account, entropyGroup, entropyCache, chain, reload, env, send>>

GetMaxWithBorrowForToken ==
    \E tokenIndex \in Tokens :
        /\ ret' = [op |-> "getMaxWithBorrowForToken",
                   tokenIndex |-> tokenIndex,
                   val |-> getMaxWithBorrowForToken(account, entropyGroup,
                                                    entropyCache, tokenIndex)]
        /\ UNCHANGED <<account, entropyGroup, entropyCache, chain, reload, env, send>>

\* the UI price a caller asks a maximum size for
TradePrices == {3 * ONE_I80F48}

GetMaxLeverageForMarket ==
    \E marketIndex \in Markets : \E marketKind \in MarketKinds :
    \E side \in Sides : \E price \in TradePrices :
        /\ ret' = [op |-> "getMaxLeverageForMarket",
                   marketIndex |-> marketIndex, marketKind |-> marketKind,
                   side |-> side, price |-> price,
                   val |-> getMaxLeverageForMarket(account, entropyGroup,
                              entropyCache, marketIndex, marketKind, side,
                              price)]
        /\ UNCHANGED <<account, entropyGroup, entropyCache, chain, reload, env, send>>

(***************************************************************************)
(* Collaborators that produce the next snapshot: the oracle feed and the   *)
(* settlement layer, which alone changes beingLiquidated.  A liquidation   *)
(* starts when health(Maint) < 0 and the flag is cleared only once         *)
(* health(Init) >= 0.                                                      *)
(***************************************************************************)
OracleUpdate ==
    /\ entropyCache' \in Caches \ {entropyCache}
    /\ ret' = NoCall
    /\ UNCHANGED <<account, entropyGroup, chain, reload, env, send>>

LiquidationStarted ==
    /\ ~account.beingLiquidated
    /\ isNeg(getHealth(account, entropyGroup, entropyCache, "Maint"))
    /\ account' = [account EXCEPT !.beingLiquidated = TRUE]
    /\ ret' = NoCall
    /\ UNCHANGED <<entropyGroup, entropyCache, chain, reload, env, send>>

LiquidationCleared ==
    /\ account.beingLiquidated
    /\ ~isNeg(getHealth(account, entropyGroup, entropyCache, "Init"))
    /\ account' = [account EXCEPT !.beingLiquidated = FALSE]
    /\ ret' = NoCall
    /\ UNCHANGED <<entropyGroup, entropyCache, chain, reload, env, send>>

(***************************************************************************)
(* EntropyAccount: reload.  The on-chain account changes underneath the    *)
(* client; reload() reads it with one request, assigns the decoded fields  *)
(* to the object, and then, given a dexProgramId, reads the open-orders    *)
(* accounts with a second request and assigns them.  Between the awaits    *)
(* any synchronous query can run on the object.                            *)
(***************************************************************************)
\* largest number of changes of the on-chain account explored
MaxEpoch == 2

\* the on-chain account after e changes, together with the open-orders
\* accounts its keys name at that time: a resting bid, then a partly
\* filled order with more base deposited, then a closed open-orders account
OnChain(e) ==
    IF e % 3 = 0
    THEN MkAccount(<<12, 0>>, <<0, 0>>, TRUE, <<OpenOrdersRec(0, 0, 0, 5)>>,
                   NoPerp, <<5, 0, NoPerp>>)
    ELSE IF e % 3 = 1
    THEN MkAccount(<<0, 6>>, <<9, 0>>, TRUE, <<OpenOrdersRec(1, 2, 1, 0)>>,
                   NoPerp, <<5, 0, NoPerp>>)
    ELSE MkAccount(<<12, 0>>, <<9, 0>>, FALSE, undefined, NoPerp,
                   <<5, 0, NoPerp>>)

\* Object.assign(this, EntropyAccountLayout.decode(data)): every decoded
\* field is overwritten, spotOpenOrdersAccounts is not part of the layout
assignDecoded(this, e) ==
    [OnChain(e) EXCEPT
        !.spotOpenOrdersAccounts = this.spotOpenOrdersAccounts]

\* the open-orders account stored under a key in on-chain state e, as a
\* one-element tuple, or undefined when no such account exists
openOrdersAccountAt(e, key) ==
    IF \E i \in Markets : OnChain(e).spotOpenOrders[i] = key
    THEN OnChain(e).spotOpenOrdersAccounts[
            CHOOSE i \in Markets : OnChain(e).spotOpenOrders[i] = key]
    ELSE undefined

\* largest slot explored
MaxSlot == 3

\* the on-chain account changes, in a new slot
ChainAdvance ==
    /\ chain.epoch < MaxEpoch
    /\ chain.slot < MaxSlot
    /\ chain' = [epoch |-> chain.epoch + 1, slot |-> chain.slot + 1]
    /\ UNCHANGED <<account, entropyGroup, entropyCache, ret, reload, env, send>>

\* reload(connection, dexProgramId) up to its first await
ReloadCall ==
    \E dexProgramId \in BOOLEAN :
        /\ reload.pc = "idle"
        /\ reload' = [reload EXCEPT !.pc = "getAccountInfo",
                                    !.method = "reload",
                                    !.returned = FALSE,
                                    !.dexProgramId = dexProgramId]
        /\ UNCHANGED <<account, entropyGroup, entropyCache, ret, chain, env, send>>

\* getAccountInfo answers: Object.assign, then either the call of
\* loadOpenOrders up to its await or the return
ReloadAccountInfo ==
    /\ reload.pc = "getAccountInfo"
    /\ account' = assignDecoded(account, chain.epoch)
    /\ reload' =
          IF reload.dexProgramId
          THEN [reload EXCEPT
                   !.pc = "getMultipleAccounts",
                   !.keys = {account'.spotOpenOrders[i] : i \in Markets}
                               \ {zeroKey},
                   !.accountEpoch = chain.epoch]
          ELSE [reload EXCEPT !.pc = "idle",
                              !.returned = TRUE,
                              !.accountEpoch = chain.epoch,
                              !.allLoaded = FALSE]
    /\ ret' = NoCall
    /\ UNCHANGED <<entropyGroup, entropyCache, chain, env, send>>

\* getMultipleAccounts answers: loadOpenOrders maps the object's current
\* keys to the accounts fetched, and reload or reloadFromSlot returns
ReloadOpenOrders ==
    /\ reload.pc = "getMultipleAccounts"
    /\ account' =
          [account EXCEPT !.spotOpenOrdersAccounts =
              [i \in Markets |->
                  IF account.spotOpenOrders[i] = zeroKey THEN undefined
                  ELSE IF account.spotOpenOrders[i] \in reload.keys
                  THEN openOrdersAccountAt(chain.epoch,
                                           account.spotOpenOrders[i])
                  ELSE undefined]]
    /\ reload' = [reload EXCEPT !.pc = "idle", !.returned = TRUE,
                                !.keys = {}]
    /\ ret' = NoCall
    /\ UNCHANGED <<entropyGroup, entropyCache, chain, env, send>>

\* the cluster moves to the next slot without a change of the account
SlotAdvance ==
    /\ chain.slot < MaxSlot
    /\ chain' = [chain EXCEPT !.slot = @ + 1]
    /\ UNCHANGED <<account, entropyGroup, entropyCache, ret, reload, env, send>>

\* the lastSlot arguments tried: the default and a later slot
LastSlots == {0, 1}

\* a slip that stops polling at a response of lastSlot itself
keepPollingBelow(slot, lastSlot) == slot < lastSlot

\* the loop test of reloadFromSlot
keepPolling(slot, lastSlot) == slot <= lastSlot

\* reloadFromSlot(connection, lastSlot, dexProgramId) up to its first
\* await: slot is -1, so the loop is entered and the first request sent
ReloadFromSlotCall ==
    \E lastSlot \in LastSlots : \E dexProgramId \in BOOLEAN :
        /\ reload.pc = "idle"
        /\ keepPolling(-1, lastSlot)
        /\ reload' = [reload EXCEPT !.pc = "getAccountInfoAndContext",
                                    !.method = "reloadFromSlot",
                                    !.returned = FALSE,
                                    !.dexProgramId = dexProgramId,
                                    !.lastSlot = lastSlot,
                                    !.slot = -1,
                                    !.value = -1]
        /\ UNCHANGED <<account, entropyGroup, entropyCache, ret, chain, env, send>>

\* getAccountInfoAndContext answers: slot and value are taken from the
\* response and the loop sleeps
ReloadSlotResponse ==
    /\ reload.pc = "getAccountInfoAndContext"
    /\ reload' = [reload EXCEPT !.pc = "sleep",
                                !.slot = chain.slot,
                                !.value = chain.epoch]
    /\ UNCHANGED <<account, entropyGroup, entropyCache, ret, chain, env, send>>

\* the sleep of 250 ms ends and the loop test is made: either the next
\* request is sent, or the value held is decoded and assigned, followed by
\* the call of loadOpenOrders up to its await or by the return
ReloadSlotWake ==
    /\ reload.pc = "sleep"
    /\ IF keepPolling(reload.slot, reload.lastSlot)
       THEN /\ reload' = [reload EXCEPT !.pc = "getAccountInfoAndContext"]
            /\ UNCHANGED <<account, ret>>
       ELSE /\ account' = assignDecoded(account, reload.value)
            /\ reload' =
                  IF reload.dexProgramId
                  THEN [reload EXCEPT
                           !.pc = "getMultipleAccounts",
                           !.keys =
                               {account'.spotOpenOrders[i] : i \in Markets}
                                   \ {zeroKey},
                           !.accountEpoch = reload.value]
                  ELSE [reload EXCEPT !.pc = "idle",
                                      !.returned = TRUE,
                                      !.accountEpoch = reload.value,
                                      !.allLoaded = FALSE]
            /\ ret' = NoCall
    /\ UNCHANGED <<entropyGroup, entropyCache, chain, env, send>>

(***************************************************************************)
(* EntropyClient: sendTransaction and awaitTransactionSignatureConfirmation*)
(* One action is one run of JavaScript between two awaits or one callback. *)
(***************************************************************************)
ConfirmLevels == {"processed", "confirmed", "finalized"}

\* the timeout argument: 0 stands for null and 0 (both are falsy), 60000 is
\* the default
Timeouts == {0, 60000}

\* largest number of resends explored
MaxRetry == 2

\* largest number of status polls in flight at once
MaxPolls == 2

\* the confirmLevels list built from confirmLevel
confirmLevelsOf(confirmLevel) ==
    {"finalized"}
    \cup (IF confirmLevel = "confirmed" THEN {"confirmed"}
          ELSE IF confirmLevel = "processed" THEN {"confirmed", "processed"}
          ELSE {})

\* result.confirmations of getSignatureStatuses: blocks since confirmation,
\* null once rooted
confirmationsOf(status) == IF status = "confirmed" THEN 1 ELSE 0

\* a slip in which a missing timeout is not tested for
falsyNever(timeout) == FALSE

\* `!timeout`: null and 0, both written 0 here
falsy(timeout) == timeout = 0

\* sendTransaction up to `await this.connection.sendRawTransaction`
SendTransaction ==
    \E timeout \in Timeouts : \E confirmLevel \in ConfirmLevels :
        /\ send.pc = "idle"
        /\ send' = [send EXCEPT !.pc = "sendRawTransaction",
                                !.timeout = timeout,
                                !.confirmLevel = confirmLevel]
        /\ UNCHANGED <<account, entropyGroup, entropyCache, ret, chain, reload, env>>

\* sendSignedTransaction, called without a timeout argument, up to
\* `await this.connection.sendRawTransaction`
SendSignedTransaction ==
    \E confirmLevel \in ConfirmLevels :
        /\ send.pc = "idle"
        /\ send' = [send EXCEPT !.pc = "sendRawTransaction",
                                !.method = "sendSignedTransaction",
                                !.timeout = 60000,
                                !.confirmLevel = confirmLevel]
        /\ UNCHANGED <<account, entropyGroup, entropyCache, ret, chain, reload, env>>

\* the first submit fails: the error propagates to the caller
SendRawThrows ==
    /\ send.pc = "sendRawTransaction"
    /\ send' = [send EXCEPT !.pc = "threwSendError"]
    /\ UNCHANGED <<account, entropyGroup, entropyCache, ret, chain, reload, env>>

\* the first submit returns the txid and a configured postSendTxCallback is
\* called, an error it throws being logged.  Without a timeout the call
\* of sendTransaction returns; otherwise the resend loop runs to its first
\* sleep (in sendSignedTransaction without a test before it) and
\* awaitTransactionSignatureConfirmation runs to the first sleep of its
\* poll loop: it arms the timer and sets up the subscription, and when
\* onSignature throws it sets done, so the poll loop is not entered
SendRawReturns ==
    \E wsOk \in BOOLEAN :
        /\ send.pc = "sendRawTransaction"
        /\ IF send.method = "sendTransaction" /\ falsy(send.timeout)
           THEN /\ send' = [send EXCEPT !.pc = "returned"]
                /\ env' = [env EXCEPT
                      !.submits = 1,
                      !.callbacks = IF send.postSendTxCallback THEN 1 ELSE 0]
           ELSE /\ send' = [send EXCEPT
                      !.pc = "awaitConfirmation",
                      !.done = FALSE,
                      !.retryCount =
                          IF send.method = "sendTransaction" /\ ~env.elapsed
                          THEN 1 ELSE 0,
                      !.resend =
                          IF send.method = "sendTransaction" /\ env.elapsed
                          THEN "exited" ELSE "sleeping",
                      !.confirmDone = ~wsOk,
                      !.promise = "pending",
                      !.timer = "armed",
                      !.subscriptionId = wsOk,
                      !.loop = IF wsOk THEN "sleeping" ELSE "exited",
                      !.retrySleep = 200]
                /\ env' = [env EXCEPT
                      !.submits = 1,
                      !.callbacks = IF send.postSendTxCallback THEN 1 ELSE 0,
                      !.listener = wsOk]
        /\ UNCHANGED <<account, entropyGroup, entropyCache, ret, chain, reload>>

\* the clock passes startTime + timeout
TimeoutElapses ==
    /\ send.pc # "idle"
    /\ ~env.elapsed
    /\ env' = [env EXCEPT !.elapsed = TRUE]
    /\ UNCHANGED <<account, entropyGroup, entropyCache, ret, chain, reload, send>>

\* the setTimeout callback
TimerFires ==
    /\ send.timer = "armed"
    /\ env.elapsed
    /\ send' = IF send.confirmDone
               THEN [send EXCEPT !.timer = "fired"]
               ELSE [send EXCEPT !.timer = "fired",
                                 !.confirmDone = TRUE,
                                 !.promise = "rejectedTimeout"]
    /\ UNCHANGED <<account, entropyGroup, entropyCache, ret, chain, reload, env>>

\* the onSignature callback; the subscription is for one notification.
\* resolve and reject have no effect on a settled promise
SignatureNotification ==
    /\ env.listener
    /\ env.status # "none"
    /\ env' = [env EXCEPT !.listener = FALSE]
    /\ send' = [send EXCEPT
          !.subscriptionId = FALSE,
          !.confirmDone = TRUE,
          !.promise = IF send.promise # "pending" THEN send.promise
                      ELSE IF env.status = "failed" THEN "rejectedErr"
                      ELSE "resolved",
          !.observed = IF send.promise = "pending" /\ env.status # "failed"
                       THEN env.status ELSE send.observed]
    /\ UNCHANGED <<account, entropyGroup, entropyCache, ret, chain, reload>>

\* the poll loop wakes from its sleep: it starts one status request, doubles
\* retrySleep up to 3200 and tests done
PollWake ==
    /\ send.loop = "sleeping"
    /\ send.polls < MaxPolls
    /\ send' = [send EXCEPT
          !.polls = @ + 1,
          !.retrySleep = IF @ <= 1600 THEN @ * 2 ELSE @,
          !.loop = IF send.confirmDone THEN "exited" ELSE "sleeping"]
    /\ UNCHANGED <<account, entropyGroup, entropyCache, ret, chain, reload, env>>

\* one getSignatureStatuses request answers or fails
PollReturns ==
    \E rpcOk \in BOOLEAN :
        /\ send.polls > 0
        /\ send' =
              IF ~rpcOk \/ send.confirmDone \/ env.status = "none"
              THEN [send EXCEPT !.polls = @ - 1]
              ELSE IF env.status = "failed"
              THEN [send EXCEPT !.polls = @ - 1, !.confirmDone = TRUE,
                                !.promise = "rejectedErr"]
              ELSE IF ~(confirmationsOf(env.status) # 0
                        \/ env.status \in confirmLevelsOf(send.confirmLevel))
              THEN [send EXCEPT !.polls = @ - 1]
              ELSE [send EXCEPT !.polls = @ - 1, !.confirmDone = TRUE,
                                !.promise = "resolved",
                                !.observed = env.status]
        /\ UNCHANGED <<account, entropyGroup, entropyCache, ret, chain, reload, env>>

\* the confirmation promise is settled and sendTransaction resumes.  When
\* resolved, awaitTransactionSignatureConfirmation removes a subscription
\* still recorded in subscriptionId, sets done and returns, and
\* sendTransaction returns the txid; when rejected the await throws past
\* that cleanup: a timeout becomes TimeoutError, any other error starts the
\* simulation.  The finally block sets done whenever the call ends.
ConfirmationSettled ==
    /\ send.pc = "awaitConfirmation"
    /\ send.promise # "pending"
    /\ IF send.promise = "resolved"
       THEN /\ send' = [send EXCEPT !.pc = "returned", !.done = TRUE,
                                    !.confirmDone = TRUE]
            /\ env' = IF send.subscriptionId
                      THEN [env EXCEPT !.listener = FALSE] ELSE env
       ELSE IF send.promise = "rejectedTimeout"
       THEN /\ send' = [send EXCEPT !.pc = "threwTimeoutError",
                                    !.done = TRUE]
            /\ env' = env
       ELSE /\ send' = [send EXCEPT !.pc = "simulateTransaction"]
            /\ env' = env
    /\ UNCHANGED <<account, entropyGroup, entropyCache, ret, chain, reload>>

\* simulateTransaction throws, or reports an error with a 'Program log: '
\* line among its logs, an error without such a line, or no error
SimulateOutcomes == {"throws", "errWithLog", "errNoLog", "noErr"}

\* a slip that does not look for a 'Program log: ' line
entropyErrorMessageNoLogs(outcome) ==
    IF outcome \in {"errWithLog", "errNoLog"} THEN "simulationErr"
    ELSE "transactionFailed"

\* the message of the EntropyError: the last 'Program log: ' line, the JSON
\* of the simulation error, or 'Transaction failed'
entropyErrorMessage(outcome) ==
    IF outcome = "errWithLog" THEN "programLog"
    ELSE IF outcome = "errNoLog" THEN "simulationErr"
    ELSE "transactionFailed"

\* simulateTransaction answers or fails; every case throws EntropyError
SimulateReturns ==
    \E outcome \in SimulateOutcomes :
        /\ send.pc = "simulateTransaction"
        /\ send' = [send EXCEPT
              !.pc = "threwEntropyError",
              !.done = TRUE,
              !.simulation = outcome,
              !.error = entropyErrorMessage(outcome)]
        /\ UNCHANGED <<account, entropyGroup, entropyCache, ret, chain, reload, env>>

\* the resend loop wakes from its sleep.  In sendTransaction it submits a
\* copy and then tests its condition; in sendSignedTransaction it tests its
\* condition and then submits a copy.  The time test of
\* sendSignedTransaction compares seconds with the timeout in milliseconds:
\* it holds before the timeout has passed, and after that until `late`
ResendWake ==
    \E late \in BOOLEAN :
        /\ send.resend = "sleeping"
        /\ env.submits <= MaxRetry
        /\ IF send.method = "sendTransaction"
           THEN /\ env' = [env EXCEPT !.submits = @ + 1]
                /\ send' = IF ~send.done /\ ~env.elapsed
                           THEN [send EXCEPT !.retryCount = @ + 1]
                           ELSE [send EXCEPT !.resend = "exited"]
           ELSE IF ~send.done /\ ~(env.elapsed /\ late)
           THEN /\ env' = [env EXCEPT !.submits = @ + 1]
                /\ send' = send
           ELSE /\ env' = env
                /\ send' = [send EXCEPT !.resend = "exited"]
        /\ UNCHANGED <<account, entropyGroup, entropyCache, ret, chain, reload>>

\* the cluster processes, confirms and finalizes a submitted transaction,
\* or the transaction fails
ClusterProgress ==
    /\ env.submits > 0
    /\ \/ env.status = "none" /\ env' = [env EXCEPT !.status = "processed"]
       \/ env.status = "none" /\ env' = [env EXCEPT !.status = "failed"]
       \/ env.status = "processed"
          /\ env' = [env EXCEPT !.status = "confirmed"]
       \/ env.status = "confirmed"
          /\ env' = [env EXCEPT !.status = "finalized"]
    /\ UNCHANGED <<account, entropyGroup, entropyCache, ret, chain, reload, send>>

Next ==
    \/ GetHealthComponents
    \/ GetHealth
    \/ GetHealthRatio
    \/ IsLiquidatable
    \/ GetLiquidationPrice
    \/ GetHealthFromComponents
    \/ OracleUpdate
    \/ LiquidationStarted
    \/ LiquidationCleared

Spec == Init /\ [][Next]_vars

\* the capacity queries on the same snapshots
NextMargin ==
    \/ GetMarketMarginAvailable
    \/ GetAvailableBalance
    \/ GetMaxWithBorrowForToken
    \/ GetMaxLeverageForMarket
    \/ OracleUpdate

SpecMargin == Init /\ [][NextMargin]_vars

\* the per-kind aggregation over the snapshots of Init
NextHealths ==
    \/ GetHealthComponents
    \/ GetHealthsFromComponents
    \/ OracleUpdate

SpecHealths == Init /\ [][NextHealths]_vars

\* an EntropyAccount loaded from the on-chain account while queries and
\* reloads interleave
InitReload ==
    /\ account = OnChain(0)
    /\ entropyGroup = MkGroup(WSym, WSym, TRUE)
    /\ entropyCache \in Caches
    /\ ret = NoCall
    /\ chain = [epoch |-> 0, slot |-> 0]
    /\ reload = ReloadIdle
    /\ env = EnvIdle
    /\ send = SendIdle

NextReload ==
    \/ ChainAdvance
    \/ ReloadCall
    \/ ReloadAccountInfo
    \/ ReloadOpenOrders
    \/ GetHealth
    \/ IsLiquidatable
    \/ GetLiquidationPrice

SpecReload == InitReload /\ [][NextReload]_vars

\* reloadFromSlot against a cluster that moves on; every request is
\* answered, every sleep ends
NextReloadFromSlot ==
    \/ ChainAdvance
    \/ SlotAdvance
    \/ ReloadFromSlotCall
    \/ ReloadSlotResponse
    \/ ReloadSlotWake
    \/ ReloadOpenOrders
    \/ GetHealth

SpecReloadFromSlot ==
    /\ InitReload
    /\ [][NextReloadFromSlot]_vars
    /\ WF_vars(ReloadSlotResponse)
    /\ WF_vars(ReloadSlotWake)
    /\ WF_vars(ReloadOpenOrders)

\* one sendTransaction call of a client
InitClient ==
    /\ account = ZeroAccount
    /\ entropyGroup = MkGroup(WSym, WSym, TRUE)
    /\ entropyCache = MkCache(HALF)
    /\ ret = NoCall
    /\ chain = [epoch |-> 0, slot |-> 0]
    /\ reload = ReloadIdle
    /\ env = EnvIdle
    /\ \E postSendTxCallback \in BOOLEAN :
          send = [SendIdle EXCEPT !.postSendTxCallback = postSendTxCallback]

NextClient ==
    \/ SendTransaction
    \/ SendSignedTransaction
    \/ SendRawThrows
    \/ SendRawReturns
    \/ TimeoutElapses
    \/ TimerFires
    \/ SignatureNotification
    \/ PollWake
    \/ PollReturns
    \/ ConfirmationSettled
    \/ SimulateReturns
    \/ ResendWake
    \/ ClusterProgress

SpecClient == InitClient /\ [][NextClient]_vars

(***************************************************************************)
(* Properties                                                              *)
(***************************************************************************)
\* the snapshot's resolved components and healths, for use in properties
Comps == getHealthComponents(account, entropyGroup, entropyCache)

Health(healthType) ==
    getHealth(account, entropyGroup, entropyCache, healthType)

Price(i) == entropyCache.priceCache[i].price

RECURSIVE SumOver(_, _)
SumOver(f, S) ==
    IF S = {} THEN 0
    ELSE LET x == CHOOSE y \in S : TRUE
         IN  f[x] + SumOver(f, S \ {x})

\* registry weights by health type, read from the registry directly
SpotAssetW(i, healthType) ==
    IF healthType = "Init" THEN entropyGroup.spotMarkets[i].initAssetWeight
    ELSE entropyGroup.spotMarkets[i].maintAssetWeight

SpotLiabW(i, healthType) ==
    IF healthType = "Init" THEN entropyGroup.spotMarkets[i].initLiabWeight
    ELSE entropyGroup.spotMarkets[i].maintLiabWeight

PerpAssetW(i, healthType) ==
    IF healthType = "Init" THEN entropyGroup.perpMarkets[i].initAssetWeight
    ELSE entropyGroup.perpMarkets[i].maintAssetWeight

PerpLiabW(i, healthType) ==
    IF healthType = "Init" THEN entropyGroup.perpMarkets[i].initLiabWeight
    ELSE entropyGroup.perpMarkets[i].maintLiabWeight

\* x * price * weight in fixed point, asset weight for a positive x,
\* liab weight for a negative x, nothing for zero
WeightedValue(x, price, assetW, liabW) ==
    IF x > 0 THEN mul(mul(x, price), assetW)
    ELSE IF x < 0 THEN mul(mul(x, price), liabW)
    ELSE 0

\* quote + sum_i spot[i]*price[i]*wSpot(i) + perps[i]*price[i]*wPerp(i)
WeightedSum(c, healthType) ==
    c.quote
    + SumOver([i \in Markets |->
                  WeightedValue(c.spot[i], Price(i), SpotAssetW(i, healthType),
                                SpotLiabW(i, healthType))], Markets)
    + SumOver([i \in Markets |->
                  WeightedValue(c.perps[i], Price(i), PerpAssetW(i, healthType),
                                PerpLiabW(i, healthType))], Markets)

\* C1: getHealth(healthType) is quote plus the sum over all markets of the
\* resolver's spot and perp quantities, each times price times the health
\* type's asset weight (positive quantity) or liab weight (otherwise).
C1_HealthIsWeightedSum ==
    ret.op = "getHealth" => ret.val = WeightedSum(Comps, ret.healthType)

\* a health was computed from a positive and a negative quantity
C1_Witness ==
    /\ ret.op = "getHealth"
    /\ ret.healthType = "Init"
    /\ \E i \in Markets : Comps.spot[i] > 0
    /\ \E i \in Markets : Comps.perps[i] < 0
    /\ ret.val < 0

\* C2: isLiquidatable() is true exactly when (beingLiquidated and
\* health(Init) < 0) or health(Maint) < 0; with beingLiquidated false it is
\* health(Maint) < 0.
C2_LiquidatableFormula ==
    ret.op = "isLiquidatable" =>
        /\ ret.val = ((account.beingLiquidated /\ Health("Init") < 0)
                        \/ Health("Maint") < 0)
        /\ (~account.beingLiquidated => (ret.val = (Health("Maint") < 0)))

\* the flag decides: being liquidated, Init negative, Maint not negative
C2_Witness ==
    /\ ret.op = "isLiquidatable"
    /\ account.beingLiquidated
    /\ Health("Init") < 0
    /\ Health("Maint") >= 0
    /\ ret.val = TRUE

\* C3: hysteresis.  Once the account is being liquidated and liquidatable,
\* it stays liquidatable in the next snapshot as long as health(Init) < 0
\* there, even if health(Maint) is no longer negative; and an account that
\* is not being liquidated with health(Init) < 0 <= health(Maint) is not
\* liquidatable.
C3_Hysteresis ==
    /\ [][(/\ account.beingLiquidated
           /\ isLiquidatable(account, entropyGroup, entropyCache)
           /\ getHealth(account', entropyGroup', entropyCache', "Init") < 0)
          => isLiquidatable(account', entropyGroup', entropyCache')]_vars
    /\ [](/\ ~account.beingLiquidated
          /\ Health("Init") < 0
          /\ Health("Maint") >= 0
          => ~isLiquidatable(account, entropyGroup, entropyCache))

\* an account under liquidation is reported liquidatable although
\* health(Maint) has returned to >= 0
C3_Witness ==
    /\ ret.op = "isLiquidatable"
    /\ ret.val = TRUE
    /\ account.beingLiquidated
    /\ Health("Maint") >= 0

\* net balance of a token: deposits*depositIndex - borrows*borrowIndex
NetOf(t) ==
    mul(account.deposits[t], entropyCache.rootBankCache[t].depositIndex)
    - mul(account.borrows[t], entropyCache.rootBankCache[t].borrowIndex)

\* markets whose open-orders record exists and is in the margin basket
BasketMarkets ==
    {i \in Markets : account.inMarginBasket[i]
                     /\ account.spotOpenOrdersAccounts[i] # undefined}

OO(i) == account.spotOpenOrdersAccounts[i][1]

SpotBidsCase(i) ==
    NetOf(i) + div(OO(i).quoteLocked * MULTIPLIER, Price(i))
    + OO(i).baseFree * MULTIPLIER + OO(i).baseLocked * MULTIPLIER

SpotAsksCase(i) == NetOf(i) + OO(i).baseFree * MULTIPLIER

SpotBidsChosen(i) == abs(SpotBidsCase(i)) > abs(SpotAsksCase(i))

\* what the spot rule adds to quote for market i
SpotQuoteAdjustment(i) ==
    IF i \notin BasketMarkets THEN 0
    ELSE IF SpotBidsChosen(i) THEN OO(i).quoteFree * MULTIPLIER
    ELSE mul(OO(i).baseLocked * MULTIPLIER, Price(i))
         + OO(i).quoteFree * MULTIPLIER + OO(i).quoteLocked * MULTIPLIER

\* markets with a registered perp market
PerpMarkets ==
    {i \in Markets : entropyGroup.perpMarkets[i].perpMarket # zeroKey}

PA(i) == account.perpAccounts[i]

PerpBase(i) ==
    (PA(i).basePosition + PA(i).takerBase)
    * entropyGroup.perpMarkets[i].baseLotSize * MULTIPLIER

PerpBids(i) ==
    PA(i).bidsQuantity * entropyGroup.perpMarkets[i].baseLotSize * MULTIPLIER

PerpAsks(i) ==
    PA(i).asksQuantity * entropyGroup.perpMarkets[i].baseLotSize * MULTIPLIER

PerpTakerQuote(i) ==
    PA(i).takerQuote * entropyGroup.perpMarkets[i].quoteLotSize * MULTIPLIER

PerpBidsChosen(i) ==
    abs(PerpBase(i) + PerpBids(i)) > abs(PerpBase(i) - PerpAsks(i))

\* what the perp rule adds to quote for market i
PerpQuoteAdjustment(i) ==
    IF i \notin PerpMarkets THEN 0
    ELSE IF PerpBidsChosen(i)
    THEN PA(i).quotePosition + PerpTakerQuote(i) - mul(PerpBids(i), Price(i))
    ELSE PA(i).quotePosition + PerpTakerQuote(i) + mul(PerpAsks(i), Price(i))

\* the quote component: net quote balance plus every market's adjustments
ExpectedQuote ==
    NetOf(QUOTE_INDEX)
    + SumOver([i \in Markets |-> SpotQuoteAdjustment(i)], Markets)
    + SumOver([i \in Markets |-> PerpQuoteAdjustment(i)], Markets)

\* C4: spot worst-case resolution.  For a market in the margin basket with
\* an open-orders record, spot[i] is the bids case and quote gains quoteFree
\* when |bidsCase| > |asksCase|; otherwise (a tie included) spot[i] is the
\* asks case and quote gains baseLocked*price + quoteFree + quoteLocked.
\* With only quoteLocked resting on a zero balance, spot[i] is
\* quoteLocked/price and quote is left unchanged by that market.
C4_SpotWorstCase ==
    ret.op = "getHealthComponents" =>
        /\ \A i \in BasketMarkets :
              /\ SpotBidsChosen(i) => ret.val.spot[i] = SpotBidsCase(i)
              /\ ~SpotBidsChosen(i) => ret.val.spot[i] = SpotAsksCase(i)
              /\ (/\ NetOf(i) = 0
                  /\ OO(i).baseFree = 0 /\ OO(i).baseLocked = 0
                  /\ OO(i).quoteFree = 0 /\ OO(i).quoteLocked > 0
                  /\ i \notin PerpMarkets)
                 => /\ ret.val.spot[i]
                        = div(OO(i).quoteLocked * MULTIPLIER, Price(i))
                    /\ SpotQuoteAdjustment(i) = 0
        /\ ret.val.quote = ExpectedQuote

\* the magnitudes tie with different signs and the asks case is taken
C4_Witness ==
    /\ ret.op = "getHealthComponents"
    /\ \E i \in BasketMarkets :
          /\ SpotBidsCase(i) = -SpotAsksCase(i)
          /\ SpotBidsCase(i) > 0
          /\ ret.val.spot[i] = SpotAsksCase(i)
          /\ OO(i).baseLocked > 0
    /\ ret.val.quote = ExpectedQuote

\* C5: perp worst-case resolution.  For a registered perp market, perps[i]
\* is base + bids and quote gains quotePosition + takerQuote - bids*price
\* when |base + bids| > |base - asks|; otherwise perps[i] is base - asks and
\* quote gains quotePosition + takerQuote + asks*price.
C5_PerpWorstCase ==
    ret.op = "getHealthComponents" =>
        /\ \A i \in PerpMarkets :
              /\ PerpBidsChosen(i)
                 => ret.val.perps[i] = PerpBase(i) + PerpBids(i)
              /\ ~PerpBidsChosen(i)
                 => ret.val.perps[i] = PerpBase(i) - PerpAsks(i)
        /\ ret.val.quote = ExpectedQuote

\* resting bids are resolved as filled on a short position with taker fills
C5_Witness ==
    /\ ret.op = "getHealthComponents"
    /\ \E i \in PerpMarkets :
          /\ PerpBidsChosen(i)
          /\ PA(i).basePosition < 0
          /\ PA(i).takerQuote # 0
          /\ PA(i).bidsQuantity > 0
          /\ ret.val.perps[i] = PerpBase(i) + PerpBids(i)

\* every asset weight is <= 1 and every liab weight is >= 1
WeightsInRange ==
    \A i \in Markets : \A healthType \in HealthTypes :
        /\ SpotAssetW(i, healthType) <= ONE_I80F48
        /\ PerpAssetW(i, healthType) <= ONE_I80F48
        /\ SpotLiabW(i, healthType) >= ONE_I80F48
        /\ PerpLiabW(i, healthType) >= ONE_I80F48

\* the components the resolver would return had it taken the other spot
\* case for market i
OtherSpotCase(i) ==
    LET other == IF SpotBidsChosen(i) THEN SpotAsksCase(i) ELSE SpotBidsCase(i)
        otherAdd ==
            IF SpotBidsChosen(i)
            THEN mul(OO(i).baseLocked * MULTIPLIER, Price(i))
                 + OO(i).quoteFree * MULTIPLIER + OO(i).quoteLocked * MULTIPLIER
            ELSE OO(i).quoteFree * MULTIPLIER
    IN  [spot |-> [Comps.spot EXCEPT ![i] = other],
         perps |-> Comps.perps,
         quote |-> Comps.quote - SpotQuoteAdjustment(i) + otherAdd]

\* the components the resolver would return had it taken the other perp
\* case for market i
OtherPerpCase(i) ==
    LET other == IF PerpBidsChosen(i) THEN PerpBase(i) - PerpAsks(i)
                 ELSE PerpBase(i) + PerpBids(i)
        otherAdd ==
            IF PerpBidsChosen(i)
            THEN PA(i).quotePosition + PerpTakerQuote(i)
                 + mul(PerpAsks(i), Price(i))
            ELSE PA(i).quotePosition + PerpTakerQuote(i)
                 - mul(PerpBids(i), Price(i))
    IN  [spot |-> Comps.spot,
         perps |-> [Comps.perps EXCEPT ![i] = other],
         quote |-> Comps.quote - PerpQuoteAdjustment(i) + otherAdd]

HealthOf(c, healthType) ==
    getHealthFromComponents(entropyGroup, entropyCache, c.spot, c.perps,
                            c.quote, healthType).ret

\* C6: the case the resolver selects is the more conservative one: for
\* every market with resting spot or perp orders and both health types, the
\* health computed from the selected case is <= the health the other case
\* would give, for asset weights <= 1 and liab weights >= 1.
C6_SelectedCaseIsWorst ==
    (ret.op = "getHealth" /\ WeightsInRange) =>
        /\ \A i \in BasketMarkets :
              ret.val <= HealthOf(OtherSpotCase(i), ret.healthType)
        /\ \A i \in PerpMarkets :
              ret.val <= HealthOf(OtherPerpCase(i), ret.healthType)

\* largest increase of a liability tried, in whole shares (borrows) and in
\* lots (perp base position)
MaxLiabStep == 2

LiabSteps == 1 .. MaxLiabStep

MoreBorrow(i, d) == [account EXCEPT !.borrows[i] = @ + fromI64(d)]

MoreShort(i, d) == [account EXCEPT !.perpAccounts[i].basePosition = @ - d]

HealthOfAccount(a, healthType) ==
    getHealth(a, entropyGroup, entropyCache, healthType)

\* C7: increasing borrows[i], or making the perp base position of market i
\* more negative, strictly decreases health(Init) and health(Maint), with
\* or without resting orders in that market, when the liab weight is
\* positive.
C7_StrictMonotonicity ==
    ret.op = "getHealth" =>
        \A i \in Markets : \A d \in LiabSteps :
            /\ SpotLiabW(i, ret.healthType) > 0
               => HealthOfAccount(MoreBorrow(i, d), ret.healthType) < ret.val
            /\ (i \in PerpMarkets /\ PerpLiabW(i, ret.healthType) > 0)
               => HealthOfAccount(MoreShort(i, d), ret.healthType) < ret.val

\* every Init weight is at least as strict as the matching Maint weight
InitStricter ==
    \A i \in Markets :
        /\ SpotAssetW(i, "Init") <= SpotAssetW(i, "Maint")
        /\ PerpAssetW(i, "Init") <= PerpAssetW(i, "Maint")
        /\ SpotLiabW(i, "Init") >= SpotLiabW(i, "Maint")
        /\ PerpLiabW(i, "Init") >= PerpLiabW(i, "Maint")

PricesNonNegative == \A i \in Markets : Price(i) >= 0

\* C8: with non-negative prices and a registry whose Init weights are at
\* least as strict as its Maint weights, health(Init) <= health(Maint), so
\* health(Maint) < 0 implies health(Init) < 0.
C8_InitStricterThanMaint ==
    (ret.op = "getHealth" /\ ret.healthType = "Init"
        /\ InitStricter /\ PricesNonNegative) =>
        /\ ret.val <= Health("Maint")
        /\ Health("Maint") < 0 => ret.val < 0

\* Init is strictly below a negative Maint health
C8_Witness ==
    /\ ret.op = "getHealth"
    /\ ret.healthType = "Init"
    /\ InitStricter
    /\ ret.val < Health("Maint")
    /\ Health("Maint") < 0

\* the weighted totals getHealthRatio computes from the resolver's output
AssetsLiabs(healthType) ==
    getWeightedAssetsLiabsVals(entropyGroup, entropyCache, Comps.spot,
                               Comps.perps, Comps.quote, healthType)

\* the weighted liabilities written out: a negative quote and every
\* negative quantity, each as a magnitude times price times liab weight
LiabsTotal(healthType) ==
    (IF Comps.quote < 0 THEN -Comps.quote ELSE 0)
    + SumOver([i \in Markets |->
                  IF Comps.spot[i] < 0
                  THEN mul(mul(-Comps.spot[i], Price(i)),
                           SpotLiabW(i, healthType))
                  ELSE 0], Markets)
    + SumOver([i \in Markets |->
                  IF Comps.perps[i] < 0
                  THEN mul(mul(-Comps.perps[i], Price(i)),
                           PerpLiabW(i, healthType))
                  ELSE 0], Markets)

\* the weighted assets written out
AssetsTotal(healthType) ==
    (IF Comps.quote > 0 THEN Comps.quote ELSE 0)
    + SumOver([i \in Markets |->
                  IF Comps.spot[i] > 0
                  THEN mul(mul(Comps.spot[i], Price(i)),
                           SpotAssetW(i, healthType))
                  ELSE 0], Markets)
    + SumOver([i \in Markets |->
                  IF Comps.perps[i] > 0
                  THEN mul(mul(Comps.perps[i], Price(i)),
                           PerpAssetW(i, healthType))
                  ELSE 0], Markets)

AllZeroSnapshot ==
    /\ \A t \in Tokens : account.deposits[t] = 0 /\ account.borrows[t] = 0
    /\ \A i \in Markets :
          /\ account.spotOpenOrdersAccounts[i] = undefined
          /\ account.perpAccounts[i] = NoPerp

\* C9: getHealthRatio returns exactly 100 when the weighted liabs total is
\* not greater than zero, whatever the assets, and (assets/liabs - 1)*100
\* when liabs > 0; it never divides by zero; an all-zero snapshot has
\* health(Init) = health(Maint) = 0 and ratio 100.
C9_HealthRatio ==
    ret.op = "getHealthRatio" =>
        /\ ~ret.val.threw
        /\ LiabsTotal(ret.healthType) <= 0 => ret.val.ret = 100 * MULTIPLIER
        /\ LiabsTotal(ret.healthType) > 0 =>
              ret.val.ret =
                mul(div(AssetsTotal(ret.healthType), LiabsTotal(ret.healthType))
                        - ONE_I80F48, 100 * MULTIPLIER)
        /\ AllZeroSnapshot =>
              /\ ret.val.ret = 100 * MULTIPLIER
              /\ Health("Init") = 0
              /\ Health("Maint") = 0

\* no liabilities and positive assets: the ratio is 100
C9_Witness ==
    /\ ret.op = "getHealthRatio"
    /\ LiabsTotal(ret.healthType) = 0
    /\ AssetsTotal(ret.healthType) > 0
    /\ ret.val.ret = 100 * MULTIPLIER
    /\ ~ret.val.threw

\* the Maint-weighted health terms of market m
MarketTerms(m) ==
    WeightedValue(Comps.spot[m], Price(m), SpotAssetW(m, "Maint"),
                  SpotLiabW(m, "Maint"))
    + WeightedValue(Comps.perps[m], Price(m), PerpAssetW(m, "Maint"),
                    PerpLiabW(m, "Maint"))

\* the Maint-weighted exposure of market m, without its price
WeightedExposure(m) ==
    mul(Comps.spot[m],
        IF Comps.spot[m] > 0 THEN SpotAssetW(m, "Maint")
        ELSE SpotLiabW(m, "Maint"))
    + mul(Comps.perps[m],
          IF Comps.perps[m] > 0 THEN PerpAssetW(m, "Maint")
          ELSE PerpLiabW(m, "Maint"))

\* C10: all metrics use the same worst-case components: getHealth equals
\* assets - liabs of the totals getHealthRatio computes, getHealth < 0
\* exactly when getHealthRatio < 0, and getLiquidationPrice splits the same
\* components: its partialHealth plus market m's terms is health(Maint) and
\* its weightedAsset is the negated weighted exposure of market m.
C10_MetricsAgree ==
    /\ ret.op = "getHealth" =>
          ret.val = AssetsLiabs(ret.healthType).assets
                    - AssetsLiabs(ret.healthType).liabs
    /\ ret.op = "getHealthRatio" =>
          (ret.val.ret < 0) = (Health(ret.healthType) < 0)
    /\ ret.op = "getLiquidationPrice" =>
          LET parts == liquidationPriceParts(account, entropyGroup,
                                             entropyCache, ret.oracleIndex)
          IN  /\ parts.partialHealth + MarketTerms(ret.oracleIndex)
                    = Health("Maint")
              /\ parts.weightedAsset = -WeightedExposure(ret.oracleIndex)

\* a negative health with both assets and liabs present
C10_Witness ==
    /\ ret.op = "getHealth"
    /\ ret.val < 0
    /\ AssetsLiabs(ret.healthType).assets > 0
    /\ Comps.quote < 0
    /\ ret.val = AssetsLiabs(ret.healthType).assets
                 - AssetsLiabs(ret.healthType).liabs

\* C11: absence is "no exposure", not an error.  For every market whose
\* open-orders record is absent or whose margin-basket flag is false,
\* spot[i] is the net balance and the market adds nothing to quote, whatever
\* order amounts a record outside the basket holds; for every market without
\* a registered perp market perps[i] is 0 and the market adds nothing to
\* quote, whatever the account's perp slot holds: quote is the net quote
\* balance plus the adjustments of the basket markets and of the registered
\* perp markets only.
C11_AbsenceIsNoExposure ==
    ret.op = "getHealthComponents" =>
        /\ \A i \in Markets :
              (account.spotOpenOrdersAccounts[i] = undefined
                  \/ ~account.inMarginBasket[i])
              => ret.val.spot[i] = NetOf(i)
        /\ \A i \in Markets :
              entropyGroup.perpMarkets[i].perpMarket = zeroKey
              => ret.val.perps[i] = 0
        /\ ret.val.quote =
              NetOf(QUOTE_INDEX)
              + SumOver([i \in BasketMarkets |-> SpotQuoteAdjustment(i)],
                        BasketMarkets)
              + SumOver([i \in PerpMarkets |-> PerpQuoteAdjustment(i)],
                        PerpMarkets)

\* a record with resting orders outside the basket and a perp slot with a
\* position in an unregistered market were both resolved as no exposure
C11_Witness ==
    /\ ret.op = "getHealthComponents"
    /\ \E i \in Markets :
          /\ ~account.inMarginBasket[i]
          /\ account.spotOpenOrdersAccounts[i] # undefined
          /\ OO(i).baseLocked > 0
          /\ OO(i).quoteFree > 0
          /\ ret.val.spot[i] = NetOf(i)
    /\ \E i \in Markets :
          /\ entropyGroup.perpMarkets[i].perpMarket = zeroKey
          /\ PA(i).basePosition # 0
          /\ PA(i).quotePosition # 0
          /\ ret.val.perps[i] = 0
    /\ \E i \in Markets :
          /\ account.spotOpenOrdersAccounts[i] = undefined
          /\ ret.val.spot[i] = NetOf(i)
    /\ ret.val.quote = NetOf(QUOTE_INDEX)

QueryOps ==
    {"getHealthComponents", "getHealth", "getHealthRatio", "isLiquidatable",
     "getLiquidationPrice"}

\* the value a query has on a snapshot, as a record like the one an action
\* leaves in ret
QueryValue(r, a, g, c) ==
    IF r.op = "getHealthComponents" THEN getHealthComponents(a, g, c)
    ELSE IF r.op = "getHealth" THEN getHealth(a, g, c, r.healthType)
    ELSE IF r.op = "getHealthRatio" THEN getHealthRatio(a, g, c, r.healthType)
    ELSE IF r.op = "isLiquidatable" THEN isLiquidatable(a, g, c)
    ELSE getLiquidationPrice(a, g, c, r.oracleIndex)

C13_AggregatorIsPure ==
    ret.op = "getHealthFromComponents" =>
        /\ ret.val = Health(ret.healthType)
        /\ ret.components = Comps

\* market m has no resting spot orders that count and no resting perp orders
NoRestingOrders(m) ==
    /\ m \in BasketMarkets => (OO(m).baseLocked = 0 /\ OO(m).quoteLocked = 0)
    /\ m \in PerpMarkets => (PA(m).bidsQuantity = 0 /\ PA(m).asksQuantity = 0)

\* 10^(decimals[m] - decimals[QUOTE]) as a fixed-point number
PriceScale(m) ==
    fromNumberPow10(entropyGroup.tokens[m].decimals
                    - entropyGroup.tokens[QUOTE_INDEX].decimals)

\* health(Maint) of the snapshot with price[m] replaced by a returned
\* liquidation price, converted back to the price cache's units
RoundTripHealth(m, liqPrice) ==
    getHealth(account, entropyGroup,
              [entropyCache EXCEPT !.priceCache[m].price =
                  div(liqPrice, PriceScale(m))],
              "Maint")

\* the weight the aggregator applies to a quantity
AppliedWeight(x, assetW, liabW) == IF x > 0 THEN assetW ELSE liabW

\* what truncation can lose on the round trip, in units of the last place:
\* the quotient loses less than one unit, which the round trip multiplies
\* by the weighted exposure; each of the two weighted exposures loses less
\* than one unit, multiplied by the price; each of the two price products
\* loses less than one unit, multiplied by the weight; the two final
\* products lose less than one unit each
TruncationEpsilon(m, liqPrice) ==
    (abs(WeightedExposure(m))
        + 2 * div(liqPrice, PriceScale(m))
        + AppliedWeight(Comps.spot[m], SpotAssetW(m, "Maint"),
                        SpotLiabW(m, "Maint"))
        + AppliedWeight(Comps.perps[m], PerpAssetW(m, "Maint"),
                        PerpLiabW(m, "Maint"))) \div MULTIPLIER
    + 3

\* C14: liquidation-price round trip.  When market m has no resting spot or
\* perp orders and getLiquidationPrice(m) returns a price, health(Maint)
\* recomputed with price[m] replaced by that price, converted back from the
\* 10^(decimals[m] - decimals[QUOTE]) scaling, is within the truncation
\* epsilon of zero.
C14_LiquidationPriceRoundTrip ==
    (/\ ret.op = "getLiquidationPrice"
     /\ NoRestingOrders(ret.oracleIndex)
     /\ ret.val # undefined)
    => abs(RoundTripHealth(ret.oracleIndex, ret.val[1]))
          <= TruncationEpsilon(ret.oracleIndex, ret.val[1])

\* a price different from the cached one was returned for a market whose
\* decimals differ from the quote's, and health(Maint) is outside epsilon at
\* the cached price and within epsilon at the returned one
C14_Witness ==
    /\ ret.op = "getLiquidationPrice"
    /\ NoRestingOrders(ret.oracleIndex)
    /\ ret.val # undefined
    /\ PriceScale(ret.oracleIndex) # ONE_I80F48
    /\ Comps.spot[ret.oracleIndex] # 0
    /\ div(ret.val[1], PriceScale(ret.oracleIndex)) > 0
    /\ abs(Health("Maint"))
          > TruncationEpsilon(ret.oracleIndex, ret.val[1])
    /\ abs(RoundTripHealth(ret.oracleIndex, ret.val[1]))
          <= TruncationEpsilon(ret.oracleIndex, ret.val[1])

\* health(Maint) without the terms of market m
PartialHealth(m) ==
    Comps.quote
    + SumOver([i \in Markets \ {m} |->
                  WeightedValue(Comps.spot[i], Price(i), SpotAssetW(i, "Maint"),
                                SpotLiabW(i, "Maint"))
                  + WeightedValue(Comps.perps[i], Price(i),
                                  PerpAssetW(i, "Maint"),
                                  PerpLiabW(i, "Maint"))],
              Markets \ {m})

\* C15: getLiquidationPrice(m) returns undefined when the Maint-weighted
\* exposure of market m is zero or when partialHealth divided by the negated
\* weighted exposure is negative; otherwise it returns that quotient scaled
\* by 10^(decimals[m] - decimals[QUOTE]), which is not negative; the
\* division is only reached with a non-zero divisor.
C15_LiquidationPriceOrUndefined ==
    ret.op = "getLiquidationPrice" =>
        LET m == ret.oracleIndex
        IN  IF WeightedExposure(m) = 0 THEN ret.val = undefined
            ELSE LET quotient ==
                        TruncDiv(PartialHealth(m) * MULTIPLIER,
                                 -WeightedExposure(m))
                 IN  IF quotient < 0 THEN ret.val = undefined
                     ELSE /\ ret.val = <<mul(quotient, PriceScale(m))>>
                          /\ ret.val[1] >= 0

\* a long market with positive partial health: the solved price would be
\* negative and the query returned undefined
C15_Witness ==
    /\ ret.op = "getLiquidationPrice"
    /\ ret.val = undefined
    /\ WeightedExposure(ret.oracleIndex) > 0
    /\ PartialHealth(ret.oracleIndex) > 0
    /\ TruncDiv(PartialHealth(ret.oracleIndex) * MULTIPLIER,
                -WeightedExposure(ret.oracleIndex)) < 0

\* C16: getMarketMarginAvailable(m, type) returns zero when health(Init) is
\* not positive, health(Init) itself when the market's Init asset weight
\* (spot or perp by the market type) is at least 1, and otherwise
\* health(Init) / (1 - weight), a division by a positive number; the result
\* is never negative.
C16_MarketMarginAvailable ==
    ret.op = "getMarketMarginAvailable" =>
        LET weight == IF ret.marketType = "spot"
                      THEN SpotAssetW(ret.marketIndex, "Init")
                      ELSE PerpAssetW(ret.marketIndex, "Init")
        IN  /\ Health("Init") <= 0 => ret.val = 0
            /\ (Health("Init") > 0 /\ weight >= ONE_I80F48)
               => ret.val = Health("Init")
            /\ (Health("Init") > 0 /\ weight < ONE_I80F48)
               => /\ ONE_I80F48 - weight > 0
                  /\ ret.val = (Health("Init") * MULTIPLIER)
                                  \div (ONE_I80F48 - weight)
            /\ ret.val >= 0

\* a market whose spot weight is 1 and whose perp weight is below 1: the
\* spot query returned the positive health unchanged
C16_Witness ==
    /\ ret.op = "getMarketMarginAvailable"
    /\ ret.marketType = "spot"
    /\ SpotAssetW(ret.marketIndex, "Init") >= ONE_I80F48
    /\ PerpAssetW(ret.marketIndex, "Init") < ONE_I80F48
    /\ Health("Init") > 0
    /\ ret.val = Health("Init")

\* the Init weights getMaxLeverageForMarket solves with
LeverageAssetW(marketIndex, marketKind) ==
    IF marketKind = "perp" THEN PerpAssetW(marketIndex, "Init")
    ELSE SpotAssetW(marketIndex, "Init")

LeverageLiabW(marketIndex, marketKind) ==
    IF marketKind = "perp" THEN PerpLiabW(marketIndex, "Init")
    ELSE SpotLiabW(marketIndex, "Init")

\* health(Init) in UI units
UiInitHealth ==
    div(Health("Init"),
        fromNumberPow10(entropyGroup.tokens[QUOTE_INDEX].decimals))

\* C17: getMaxLeverageForMarket special-cases a degenerate weight
\* configuration: for side buy with Init asset weight >= 1 and for side sell
\* with Init liab weight <= 1 it returns the unconstrained current health
\* instead of dividing by 1 - initAssetWeight or initLiabWeight - 1.
C17_DegenerateWeightsSpecialCased ==
    (/\ ret.op = "getMaxLeverageForMarket"
     /\ \/ /\ ret.side = "buy"
           /\ LeverageAssetW(ret.marketIndex, ret.marketKind) >= ONE_I80F48
        \/ /\ ret.side = "sell"
           /\ LeverageLiabW(ret.marketIndex, ret.marketKind) <= ONE_I80F48)
    => /\ ~ret.val.threw
       /\ ret.val.max = UiInitHealth

Least(x, y) == IF x <= y THEN x ELSE y

Greatest(x, y) == IF x >= y THEN x ELSE y

\* C18: the result r of getAvailableBalance(token) satisfies
\* 0 <= r <= max(net, 0) with net the token's net balance; for the quote
\* token r = max(0, min(health(Init), net)), for any other token
\* r = max(0, min(net, health(Init) / initSpotAssetWeight / price)).
C18_AvailableBalance ==
    ret.op = "getAvailableBalance" =>
        LET t == ret.tokenIndex
        IN  /\ 0 <= ret.val
            /\ ret.val <= Greatest(NetOf(t), 0)
            /\ t = QUOTE_INDEX
               => ret.val = Greatest(0, Least(Health("Init"), NetOf(t)))
            /\ t # QUOTE_INDEX
               => ret.val =
                    Greatest(0,
                        Least(NetOf(t),
                              TruncDiv(TruncDiv(Health("Init") * MULTIPLIER,
                                                SpotAssetW(t, "Init"))
                                          * MULTIPLIER,
                                       Price(t))))

\* health, not the balance, limits the withdrawal of a deposited token
C18_Witness ==
    /\ ret.op = "getAvailableBalance"
    /\ ret.tokenIndex # QUOTE_INDEX
    /\ ret.val > 0
    /\ ret.val < NetOf(ret.tokenIndex)
    /\ Health("Init") > 0


\* C19: reload with a dexProgramId is atomic for the queries: as long as
\* every reload was given a dexProgramId, the account a query can run on is
\* one fetch of the on-chain account, its decoded fields and its open-orders
\* accounts being of the same on-chain state.
C19_NoMixedEpochs ==
    reload.allLoaded => account = OnChain(reload.accountEpoch)

\* C20: sendTransaction with a timeout completes: while the call awaits the
\* confirmation promise and nothing has settled it, the timeout timer is
\* still armed, so that at the latest its firing settles the promise and
\* the call ends with TimeoutError.
C20_SendTransactionCompletes ==
    (send.pc = "awaitConfirmation" /\ send.promise = "pending")
        => send.timer = "armed"


\* C21: sendTransaction called with timeout null or 0 submits the raw
\* transaction once, calls a configured postSendTxCallback once and returns
\* the txid: it starts no resend loop, no timer, no subscription and no
\* confirmation promise, and ends in no other way than by returning or by
\* the error of the first submit.
C21_NoTimeoutReturnsAfterOneSubmit ==
    (send.method = "sendTransaction" /\ send.timeout = 0) =>
        /\ send.pc \in {"idle", "sendRawTransaction", "returned",
                        "threwSendError"}
        /\ env.submits <= 1
        /\ send.resend = "none"
        /\ send.promise = "none"
        /\ send.timer = "none"
        /\ ~env.listener
        /\ send.pc = "returned" =>
              /\ env.submits = 1
              /\ env.callbacks = IF send.postSendTxCallback THEN 1 ELSE 0

\* a call without timeout has returned after its callback, and the cluster
\* has since processed the transaction
C21_Witness ==
    /\ send.method = "sendTransaction"
    /\ send.timeout = 0
    /\ send.pc = "returned"
    /\ env.submits = 1
    /\ env.callbacks = 1
    /\ env.status = "processed"


\* C22: getHealthsFromComponents returns two values accumulated apart: spot
\* is the quote plus the weighted spot values only, perp is the quote plus
\* the weighted perp values only, and the quote argument still holds the
\* resolver's quote afterwards.
C22_HealthsAccumulatedApart ==
    ret.op = "getHealthsFromComponents" =>
        /\ ret.val.spot =
              Comps.quote
              + SumOver([i \in Markets |->
                            WeightedValue(Comps.spot[i], Price(i),
                                          SpotAssetW(i, ret.healthType),
                                          SpotLiabW(i, ret.healthType))],
                        Markets)
        /\ ret.val.perp =
              Comps.quote
              + SumOver([i \in Markets |->
                            WeightedValue(Comps.perps[i], Price(i),
                                          PerpAssetW(i, ret.healthType),
                                          PerpLiabW(i, ret.healthType))],
                        Markets)
        /\ ret.components.quote = Comps.quote


\* the cache with the price of market m replaced
WithPrice(m, price) ==
    [entropyCache EXCEPT !.priceCache[m].price = price]

\* prices tried for the market whose liquidation price is asked for
OtherPrices == {HALF, ONE_I80F48, 2 * ONE_I80F48}

\* C23: the partialHealth of getLiquidationPrice(m) does not depend on the
\* price of market m: computed on the same snapshot with a cache that
\* differs only in price[m], it is the same number.
C23_PartialHealthIgnoresOwnPrice ==
    ret.op = "getLiquidationPrice" =>
        \A price \in OtherPrices :
            liquidationPriceParts(account, entropyGroup,
                                  WithPrice(ret.oracleIndex, price),
                                  ret.oracleIndex).partialHealth
              = liquidationPriceParts(account, entropyGroup, entropyCache,
                                      ret.oracleIndex).partialHealth


\* no perp position, order or settled quote in any market
NoPerpExposure == \A i \in Markets : account.perpAccounts[i] = NoPerp

\* the Init weights and prices getMaxWithBorrowForToken(t) is stated with
BorrowLiabW(t) ==
    IF t = QUOTE_INDEX THEN ONE_I80F48
    ELSE entropyGroup.spotMarkets[t].initLiabWeight

BorrowAssetW(t) ==
    IF t = QUOTE_INDEX THEN ONE_I80F48
    ELSE entropyGroup.spotMarkets[t].initAssetWeight

NativePrice(t) == IF t = QUOTE_INDEX THEN ONE_I80F48 ELSE Price(t)

UiPrice(t) ==
    IF t = QUOTE_INDEX THEN ONE_I80F48
    ELSE mul(Price(t),
             fromNumberPow10(entropyGroup.tokens[t].decimals
                             - entropyGroup.tokens[QUOTE_INDEX].decimals))

NativeDeposit(t) ==
    mul(entropyCache.rootBankCache[t].depositIndex, account.deposits[t])

\* health(Init) in whole native units once the whole deposit of t is
\* withdrawn, in UI units of the quote token
UiHealthWithoutDeposit(t) ==
    div(floor(floor(Health("Init"))
              - mul(mul(floor(NativeDeposit(t)), NativePrice(t)),
                    BorrowAssetW(t))),
        fromNumberPow10(entropyGroup.tokens[QUOTE_INDEX].decimals))

\* what the truncations of the final division and of the two products of
\* the left-hand side can lose: one unit of the result, valued, plus one
\* unit of each product
BorrowEpsilon(t) ==
    mul(mul(1, UiPrice(t)), BorrowLiabW(t)) + mul(1, BorrowLiabW(t)) + 2

\* health(Init) after the whole deposit of t was withdrawn and b (UI) of t
\* was borrowed: the aggregation over the components with the balance of t
\* replaced by the borrow
HealthAfterBorrow(t, b) ==
    LET native == mul(b, fromNumberPow10(entropyGroup.tokens[t].decimals))
    IN  IF t = QUOTE_INDEX
        THEN getHealthFromComponents(entropyGroup, entropyCache, Comps.spot,
                 Comps.perps, Comps.quote - NativeDeposit(t) - native,
                 "Init").ret
        ELSE getHealthFromComponents(entropyGroup, entropyCache,
                 [Comps.spot EXCEPT ![t] = -native], Comps.perps,
                 Comps.quote, "Init").ret

\* what the three floors lose in native health: a whole unit of health
\* twice and a whole unit of the deposit, valued
FloorEpsilon(t) ==
    2 * ONE_I80F48 + mul(mul(ONE_I80F48, NativePrice(t)), BorrowAssetW(t))

SharesFor(t, amount) ==
    LET index == entropyCache.rootBankCache[t].depositIndex
    IN  (amount * MULTIPLIER + index - 1) \div index

\* the snapshot's account after the withdrawal of a native amount of t
AfterWithdrawal(t, amount) ==
    [account EXCEPT !.deposits[t] = @ - SharesFor(t, amount)]

\* what the rounding of the withdrawn shares, valued at the Init asset
\* weight, and the truncations of the products of the two aggregations
\* can lose
WithdrawEpsilon(t) ==
    mul(mul((entropyCache.rootBankCache[t].depositIndex \div MULTIPLIER) + 2,
            NativePrice(t)),
        BorrowAssetW(t))
    + 4

\* C25: for every snapshot with health(Init) >= 0 and every token t, the
\* account whose deposit of t is reduced by getAvailableBalance(t), with its
\* resting orders and perp positions unchanged, has health(Init) >= 0 up
\* to truncation.
C25_WithdrawalKeepsInitHealth ==
    (ret.op = "getAvailableBalance" /\ Health("Init") >= 0) =>
        getHealth(AfterWithdrawal(ret.tokenIndex, ret.val), entropyGroup,
                  entropyCache, "Init")
            >= -WithdrawEpsilon(ret.tokenIndex)

\* positive health limits the withdrawal of a token with resting spot
\* orders, and the withdrawal uses the health up to the truncation
C25_Witness ==
    /\ ret.op = "getAvailableBalance"
    /\ ret.tokenIndex \in BasketMarkets
    /\ ~NoRestingOrders(ret.tokenIndex)
    /\ ret.val > 0
    /\ ret.val < NetOf(ret.tokenIndex)
    /\ Health("Init") > 0
    /\ getHealth(AfterWithdrawal(ret.tokenIndex, ret.val), entropyGroup,
                 entropyCache, "Init")
          <= WithdrawEpsilon(ret.tokenIndex)


\* processed < confirmed < finalized
StatusRank(status) ==
    IF status = "processed" THEN 1
    ELSE IF status = "confirmed" THEN 2
    ELSE IF status = "finalized" THEN 3
    ELSE 0

\* C26: awaitTransactionSignatureConfirmation resolves only with a result
\* whose status is at least as strong as confirmLevel, on the notification
\* path and on the polling path.
C26_ResolvedAtConfirmLevel ==
    send.promise = "resolved" =>
        StatusRank(send.observed) >= StatusRank(send.confirmLevel)


\* C27: once the finally block has set done, which it does when
\* sendTransaction or sendSignedTransaction returns or throws after the
\* confirmation, no further copy of the raw transaction is submitted.
C27_NoSubmitAfterDone ==
    [][send.done => env'.submits = env.submits]_vars


\* C28: after the first submit of a call with a timeout, a confirmation
\* timeout ends the call with TimeoutError and without a simulation; any
\* other confirmation failure ends it, after the simulation, with
\* EntropyError whose message is the last 'Program log: ' line when the
\* simulation reports an error with such a line, the JSON of the simulation
\* error when it reports an error without one, and 'Transaction failed'
\* when the simulation throws or reports no error; the txid is returned
\* only when the confirmation promise was resolved.
C28_FailureClassification ==
    /\ send.promise = "rejectedTimeout" =>
          /\ send.pc \in {"awaitConfirmation", "threwTimeoutError"}
          /\ send.simulation = "none"
          /\ send.error = "none"
    /\ send.promise = "rejectedErr" =>
          send.pc \in {"awaitConfirmation", "simulateTransaction",
                       "threwEntropyError"}
    /\ send.pc = "threwTimeoutError" => send.promise = "rejectedTimeout"
    /\ send.pc = "threwEntropyError" =>
          /\ send.promise = "rejectedErr"
          /\ send.simulation \in SimulateOutcomes
          /\ send.simulation = "errWithLog" => send.error = "programLog"
          /\ send.simulation = "errNoLog" => send.error = "simulationErr"
          /\ send.simulation \in {"throws", "noErr"}
                => send.error = "transactionFailed"
    /\ (send.pc = "returned" /\ send.timeout # 0) =>
          send.promise = "resolved"

\* sendSignedTransaction has thrown EntropyError with the program's log
\* line after a status poll reported the transaction's error
C28_Witness ==
    /\ send.method = "sendSignedTransaction"
    /\ send.pc = "threwEntropyError"
    /\ send.simulation = "errWithLog"
    /\ send.error = "programLog"
    /\ send.subscriptionId


\* C29: when awaitTransactionSignatureConfirmation has ended, by returning
\* or by throwing, no signature subscription of the call is registered any
\* more: its callback has fired or removeSignatureListener was called.
C29_SubscriptionReleased ==
    send.pc \in {"returned", "threwTimeoutError", "simulateTransaction",
                 "threwEntropyError"}
        => ~env.listener


\* the decoded fields of an account, which are all but the open-orders
\* accounts
DecodedFields(a) == [a EXCEPT !.spotOpenOrdersAccounts = <<>>]

\* C30: whenever reloadFromSlot has returned, the response it last fetched
\* had a slot greater than lastSlot and the fields assigned to the account
\* were decoded from that response, so that it does not return while the
\* connection reports no such slot; and once the cluster is past lastSlot, a
\* call in flight returns.
C30_ReloadFromSlot ==
    /\ [](reload.method = "reloadFromSlot" /\ reload.returned =>
            /\ reload.slot > reload.lastSlot
            /\ reload.slot <= chain.slot
            /\ reload.accountEpoch = reload.value
            /\ DecodedFields(account) = DecodedFields(OnChain(reload.value)))
    /\ (reload.method = "reloadFromSlot" /\ ~reload.returned
           /\ chain.slot > reload.lastSlot)
          ~> (reload.method = "reloadFromSlot" /\ reload.returned)

\* reloadFromSlot has returned for lastSlot 1 with the account as changed
\* on chain and its open-orders accounts loaded
C30_Witness ==
    /\ reload.method = "reloadFromSlot"
    /\ reload.returned
    /\ reload.dexProgramId
    /\ reload.lastSlot = 1
    /\ reload.slot = 2
    /\ reload.value = 1
    /\ account = OnChain(1)

====
